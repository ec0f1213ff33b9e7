------------------------ MODULE VolumeFormat_proofs ------------------------
(***************************************************************************)
(* An enlargement never leaves a volume that no header opens, nor touches   *)
(* its files (VolumeOpens), and a job that reports success has written what *)
(* it was to write (SuccessMeansWritten): for any sizes of volumes, hosts   *)
(* and buffers, and for any number of jobs, failures and deaths of the      *)
(* process.                                                                 *)
(***************************************************************************)
EXTENDS VolumeFormat, TLAPS

Filling == {"fill", "stop", "join"}
OldPrimary == {"grow", "start", "filled", "backup"} \cup Filling

(***************************************************************************)
(* Types, as far as they are needed.                                        *)
(***************************************************************************)
Jobs == [target : Sizes, from : Nat, end : Nat, before : Sizes \cup {0}]
Types ==
  /\ program \in {"format", "expand"} /\ device \in BOOLEAN
  /\ disk \in [Units -> Contents] /\ host \in Sizes \cup {0} /\ job \in Jobs
  /\ pc \in Labels /\ nSecNo \in Nat /\ place \in Nat
  /\ writer \in {"none", "loop", "wait", "write", "ended"}
  /\ running \in BOOLEAN /\ exitRequested \in BOOLEAN
  /\ request \in [from : Nat, count : Nat]

(***************************************************************************)
(* What holds of an enlargement: the sizes it goes from and to; the files   *)
(* of the volume; the header that opens the volume at each place; the       *)
(* thread writes behind the old volume and only while data are written.     *)
(***************************************************************************)
FilesKept == \A u \in 1 .. OldSize - 2 : disk[u] = Data
PrimaryFits == disk[0].is = "header" => OldSize <= disk[0].size /\ disk[0].size <= host
JobFits ==
  pc # "idle" =>
    /\ job.from \in Sizes /\ job.before \in Sizes
    /\ OldSize <= job.from /\ job.from <= job.before
    /\ job.before <= job.target /\ job.from < job.target
    /\ host = IF pc = "grow" THEN job.before ELSE job.target
    /\ device => job.before = job.target
SomeHeader ==
  /\ pc \in OldPrimary => disk[0] = Header(job.from)
  /\ pc = "primary" => disk[host - 1] = Header(host)
  /\ pc = "wipe" => disk[0] = Header(host)
  /\ pc = "idle" => disk[0].is = "header" \/ disk[host - 1] = Header(host)
WriterBehind ==
  /\ writer # "none" => pc \in Filling
  /\ writer # "none" /\ pc # "join" => running /\ ~exitRequested
  /\ pc \in Filling => place >= OldSize
Enlargement ==
  /\ host \in Sizes /\ host >= OldSize /\ pc # "header"
  /\ FilesKept /\ PrimaryFits /\ JobFits /\ SomeHeader /\ WriterBehind
OpenInv == Types /\ (program = "expand" => Enlargement)

LEMMA MaxSizeBounds == MaxSize \in Sizes /\ MaxSize \in Nat /\ \A s \in Sizes : s \in 3 .. MaxSize
<1>1. \E m \in Sizes : \A s \in Sizes : s <= m BY SizesAssumption
<1>2. MaxSize \in Sizes /\ \A s \in Sizes : s <= MaxSize BY <1>1, Zenon DEF MaxSize
<1> QED BY <1>2, SizesAssumption

\* The ends of a host of one of the sizes are units.
LEMMA Ends ==
  /\ 0 \in Units /\ OldSize \in Sizes
  /\ \A s \in Sizes : s \in Nat /\ s >= 3 /\ s - 1 \in Units
BY MaxSizeBounds, SizesAssumption DEF Units

\* Every unit holds one of the contents.
LEMMA ContentTypes ==
  /\ {Nothing, Data, Random, Wrong, Torn} \subseteq Contents
  /\ \A s \in Sizes : Header(s) \in Contents /\ Header(s).is = "header" /\ Header(s).size = s
  /\ \A c \in Contents : c.is = "header" => c.size \in Sizes /\ c = Header(c.size)
  /\ Data.is # "header"
BY DEF Contents, Header, Plain, Nothing, Data, Random, Wrong, Torn

LEMMA OpensFollows == ASSUME OpenInv PROVE VolumeOpens
<1> SUFFICES ASSUME program = "expand" PROVE VolumeOpens BY DEF VolumeOpens
<1> USE DEF OpenInv, Types, Enlargement
<1>1. \A u \in 1 .. OldSize - 2 : disk[u] = Data BY DEF FilesKept
<1>5. host \in Sizes OBVIOUS
<1>2. CASE disk[0].is = "header"
  <2>1. disk[0].size <= host BY <1>2 DEF PrimaryFits
  <2> QED BY <1>1, <1>2, <2>1 DEF VolumeOpens
<1>3. CASE disk[host - 1] = Header(host)
  <2>1. host <= host BY Ends, <1>5
  <2>2. disk[host - 1].is = "header" /\ disk[host - 1].size <= host BY <1>3, <1>5, <2>1, ContentTypes
  <2> QED BY <1>1, <2>2 DEF VolumeOpens
<1>4. disk[0].is = "header" \/ disk[host - 1] = Header(host)
  <2>1. host = job.target \/ pc \in {"idle", "grow"} BY DEF JobFits
  <2>2. pc \in OldPrimary => disk[0].is = "header" BY ContentTypes DEF SomeHeader, JobFits, OldPrimary, Filling
  <2>3. pc = "wipe" => disk[0].is = "header" BY ContentTypes DEF SomeHeader
  <2>4. pc \in OldPrimary \cup {"idle", "primary", "wipe"} BY DEF Labels, OldPrimary, Filling
  <2> QED BY <2>2, <2>3, <2>4 DEF SomeHeader
<1> QED BY <1>2, <1>3, <1>4

LEMMA OpensInit == ASSUME Init PROVE OpenInv
<1> USE DEF Init
<1>1. host \in Sizes /\ host >= OldSize BY SizesAssumption
<1>2. OldSize \in Sizes /\ OldSize \in Nat /\ OldSize >= 3 BY SizesAssumption
<1>3. disk \in [Units -> Contents]
  <2>1. \A u \in Units : disk[u] \in {Nothing, Header(OldSize), Data} OBVIOUS
  <2>2. {Nothing, Header(OldSize), Data} \subseteq Contents BY ContentTypes, <1>2
  <2>3. disk = [u \in Units |-> disk[u]] OBVIOUS
  <2> QED BY <2>1, <2>2, <2>3
<1>4. Types BY <1>1, <1>2, <1>3, SizesAssumption DEF Types, Jobs, NoJob, NoRequest, Labels
<1>5. ASSUME program = "expand" PROVE Enlargement
  <2>1. 0 \in Units /\ 0 < OldSize /\ \A u \in 1 .. OldSize - 2 : u \in Units
    BY <1>2, MaxSizeBounds DEF Units
  <2>2. disk[0] = Header(OldSize) BY <1>5, <2>1
  <2>3. FilesKept BY <1>5, <1>2, <2>1 DEF FilesKept
  <2>4. disk[0].is = "header" /\ disk[0].size = OldSize BY <2>2, <1>2, ContentTypes
  <2> QED BY <1>1, <2>3, <2>4, SizesAssumption
      DEF Enlargement, PrimaryFits, JobFits, SomeHeader, WriterBehind, OldPrimary, Filling
<1> QED BY <1>4, <1>5 DEF OpenInv

\* A write of data behind the old volume changes neither its files nor the
\* primary header.
LEMMA WrittenKeeps ==
  ASSUME disk \in [Units -> Contents], NEW r \in [from : Nat, count : Nat], place \in Nat
  PROVE  /\ Written(r) \in [Units -> Contents]
         /\ \A u \in Units : u < place => Written(r)[u] = disk[u]
BY ContentTypes DEF Written, Units

\* A unit written in place of another.
LEMMA WithUnitKeeps ==
  ASSUME disk \in [Units -> Contents], NEW v \in Units, NEW c \in Contents
  PROVE  /\ WithUnit(v, c) \in [Units -> Contents] /\ WithUnit(v, c)[v] = c
         /\ \A u \in Units \ {v} : WithUnit(v, c)[u] = disk[u]
BY DEF WithUnit

LEMMA ResizedKeeps ==
  ASSUME disk \in [Units -> Contents], NEW s \in Nat, host \in Nat
  PROVE  /\ Resized(s) \in [Units -> Contents]
         /\ \A u \in Units : u < s /\ u < host => Resized(s)[u] = disk[u]
BY ContentTypes DEF Resized

LEMMA NextRequestType ==
  ASSUME job \in Jobs, nSecNo \in Nat, nSecNo < job.end
  PROVE  NextRequest \in [from : Nat, count : Nat]
BY SizesAssumption DEF NextRequest, Jobs

\* The units of the files are units, after the primary header and before the
\* old backup header.
LEMMA FileUnits ==
  \A u \in 1 .. OldSize - 2 : u \in Units /\ u # 0 /\ u < OldSize - 1
BY MaxSizeBounds, SizesAssumption DEF Units

\* The steps of an enlargement, and those of a creation that share them: each part
\* of the invariant in turn.
LEMMA StepSkipFill == ASSUME OpenInv, SkipFill PROVE OpenInv'
<1> USE DEF SkipFill, Goto
<1>1. UNCHANGED <<disk, host, job, program, device>> BY DEF progress, thread
<1>2. Types' BY <1>1 DEF OpenInv, Types, Labels, progress, thread
<1>3. ASSUME program = "expand" PROVE Enlargement'
  <2> USE <1>3 DEF OpenInv, Enlargement, Types
  <2>1. host' \in Sizes /\ host' >= OldSize /\ pc' # "header" BY <1>1 DEF progress, thread
  <2>2. FilesKept' /\ PrimaryFits' BY <1>1 DEF FilesKept, PrimaryFits
  <2>3. JobFits' BY <1>1 DEF JobFits
  <2>4. SomeHeader' BY <1>1 DEF SomeHeader, OldPrimary, Filling
  <2>5. WriterBehind' BY <1>1, SizesAssumption DEF WriterBehind, Filling, JobFits, progress, thread
  <2> QED BY <2>1, <2>2, <2>3, <2>4, <2>5
<1> QED BY <1>1, <1>2, <1>3 DEF OpenInv

LEMMA StepEndFill == ASSUME OpenInv, EndFill PROVE OpenInv'
<1> USE DEF EndFill, Goto
<1>1. UNCHANGED <<disk, host, job, program, device>> BY DEF progress, thread
<1>2. Types' BY <1>1 DEF OpenInv, Types, Labels, progress, thread
<1>3. ASSUME program = "expand" PROVE Enlargement'
  <2> USE <1>3 DEF OpenInv, Enlargement, Types
  <2>1. host' \in Sizes /\ host' >= OldSize /\ pc' # "header" BY <1>1 DEF progress, thread
  <2>2. FilesKept' /\ PrimaryFits' BY <1>1 DEF FilesKept, PrimaryFits
  <2>3. JobFits' BY <1>1 DEF JobFits
  <2>4. SomeHeader' BY <1>1 DEF SomeHeader, OldPrimary, Filling
  <2>5. WriterBehind' BY <1>1, SizesAssumption DEF WriterBehind, Filling, JobFits, progress, thread
  <2> QED BY <2>1, <2>2, <2>3, <2>4, <2>5
<1> QED BY <1>1, <1>2, <1>3 DEF OpenInv

LEMMA StepWriterLoops == ASSUME OpenInv, WriterLoops PROVE OpenInv'
<1> USE DEF WriterLoops
<1>1. UNCHANGED <<disk, host, job, program, device>> BY DEF progress, thread
<1>2. Types' BY <1>1 DEF OpenInv, Types, Labels, progress, thread
<1>3. ASSUME program = "expand" PROVE Enlargement'
  <2> USE <1>3 DEF OpenInv, Enlargement, Types
  <2>1. host' \in Sizes /\ host' >= OldSize /\ pc' # "header" BY <1>1 DEF progress, thread
  <2>2. FilesKept' /\ PrimaryFits' BY <1>1 DEF FilesKept, PrimaryFits
  <2>3. JobFits' BY <1>1 DEF JobFits
  <2>4. SomeHeader' BY <1>1 DEF SomeHeader, OldPrimary, Filling
  <2>5. WriterBehind' BY <1>1, SizesAssumption DEF WriterBehind, Filling, JobFits, progress, thread
  <2> QED BY <2>1, <2>2, <2>3, <2>4, <2>5
<1> QED BY <1>1, <1>2, <1>3 DEF OpenInv

LEMMA StepWriterWakes == ASSUME OpenInv, WriterWakes PROVE OpenInv'
<1> USE DEF WriterWakes
<1>1. UNCHANGED <<disk, host, job, program, device>> BY DEF progress, thread
<1>2. Types' BY <1>1 DEF OpenInv, Types, Labels, progress, thread
<1>3. ASSUME program = "expand" PROVE Enlargement'
  <2> USE <1>3 DEF OpenInv, Enlargement, Types
  <2>1. host' \in Sizes /\ host' >= OldSize /\ pc' # "header" BY <1>1 DEF progress, thread
  <2>2. FilesKept' /\ PrimaryFits' BY <1>1 DEF FilesKept, PrimaryFits
  <2>3. JobFits' BY <1>1 DEF JobFits
  <2>4. SomeHeader' BY <1>1 DEF SomeHeader, OldPrimary, Filling
  <2>5. WriterBehind' BY <1>1, SizesAssumption DEF WriterBehind, Filling, JobFits, progress, thread
  <2> QED BY <2>1, <2>2, <2>3, <2>4, <2>5
<1> QED BY <1>1, <1>2, <1>3 DEF OpenInv

LEMMA StepStop == ASSUME OpenInv, Stop PROVE OpenInv'
<1> USE DEF Stop, Goto
<1>1. UNCHANGED <<disk, host, job, program, device>> BY DEF progress, thread
<1>2. Types' BY <1>1 DEF OpenInv, Types, Labels, progress, thread
<1>3. ASSUME program = "expand" PROVE Enlargement'
  <2> USE <1>3 DEF OpenInv, Enlargement, Types
  <2>1. host' \in Sizes /\ host' >= OldSize /\ pc' # "header" BY <1>1 DEF progress, thread
  <2>2. FilesKept' /\ PrimaryFits' BY <1>1 DEF FilesKept, PrimaryFits
  <2>3. JobFits' BY <1>1 DEF JobFits
  <2>4. SomeHeader' BY <1>1 DEF SomeHeader, OldPrimary, Filling
  <2>5. WriterBehind' BY <1>1, SizesAssumption DEF WriterBehind, Filling, JobFits, progress, thread
  <2> QED BY <2>1, <2>2, <2>3, <2>4, <2>5
<1> QED BY <1>1, <1>2, <1>3 DEF OpenInv

LEMMA StepJoin == ASSUME OpenInv, Join PROVE OpenInv'
<1> USE DEF Join, Goto
<1>1. UNCHANGED <<disk, host, job, program, device>> BY DEF progress, thread
<1>2. Types' BY <1>1 DEF OpenInv, Types, Labels, progress, thread
<1>3. ASSUME program = "expand" PROVE Enlargement'
  <2> USE <1>3 DEF OpenInv, Enlargement, Types
  <2>1. host' \in Sizes /\ host' >= OldSize /\ pc' # "header" BY <1>1 DEF progress, thread
  <2>2. FilesKept' /\ PrimaryFits' BY <1>1 DEF FilesKept, PrimaryFits
  <2>3. JobFits' BY <1>1 DEF JobFits
  <2>4. SomeHeader' BY <1>1 DEF SomeHeader, OldPrimary, Filling
  <2>5. WriterBehind' BY <1>1, SizesAssumption DEF WriterBehind, Filling, JobFits, progress, thread
  <2> QED BY <2>1, <2>2, <2>3, <2>4, <2>5
<1> QED BY <1>1, <1>2, <1>3 DEF OpenInv

LEMMA StepExpandVolume == ASSUME OpenInv, ExpandVolume PROVE OpenInv'
<1> USE DEF ExpandVolume, BeginJob, Goto
<1>1. program = "expand" /\ UNCHANGED <<disk, host, program, device>> /\ pc = "idle" /\ pc' = "grow"
  BY DEF ExpandVolume
<1>2. disk[0] \in Contents /\ disk[0].is = "header" BY Ends, SizesAssumption DEF OpenInv, Types
<1>3. disk[0].size \in Sizes /\ disk[0] = Header(disk[0].size) BY <1>2, ContentTypes
<1>4. PICK target \in Sizes, end \in Sizes :
        /\ target > disk[0].size /\ target >= host /\ (device => target = host)
        /\ job' = [target |-> target, from |-> disk[0].size, end |-> end, before |-> host]
  BY <1>3
<1>5. Enlargement BY <1>1 DEF OpenInv
<1>6. Types' BY <1>1, <1>3, <1>4, SizesAssumption DEF OpenInv, Types, Jobs, Labels, progress, thread
<1>7. Enlargement'
  <2>1. host' \in Sizes /\ host' >= OldSize /\ pc' # "header" BY <1>1, <1>5 DEF Enlargement
  <2>2. FilesKept' /\ PrimaryFits' BY <1>1, <1>5 DEF Enlargement, FilesKept, PrimaryFits
  <2>3. JobFits' BY <1>1, <1>2, <1>3, <1>4, <1>5 DEF Enlargement, JobFits, PrimaryFits
  <2>4. SomeHeader' BY <1>1, <1>3, <1>4 DEF SomeHeader, OldPrimary, Filling
  <2>5. WriterBehind' BY <1>1, <1>5 DEF Enlargement, WriterBehind, Filling, thread
  <2> QED BY <2>1, <2>2, <2>3, <2>4, <2>5 DEF Enlargement
<1> QED BY <1>6, <1>7 DEF OpenInv

\* The steps of a creation leave every type as it is.
LEMMA StepCreateVolume == ASSUME OpenInv, CreateVolume PROVE OpenInv'
<1>1. program = "format" /\ UNCHANGED <<program, device, progress, thread>> /\ pc' = "header"
  BY DEF CreateVolume, BeginJob, Goto
<1>2. PICK target \in Sizes :
        /\ host' = target
        /\ \E end \in {1, 2, target - 1} :
             job' = [target |-> target, from |-> 1, end |-> end, before |-> host]
  BY DEF CreateVolume, BeginJob
<1>3. {1, 2, target - 1} \subseteq Nat BY Ends, SizesAssumption DEF Units
<1>4. disk' \in [Units -> Contents]
  BY ContentTypes DEF CreateVolume, OpenInv, Types
<1>5. Types' BY <1>1, <1>2, <1>3, <1>4 DEF OpenInv, Types, Jobs, Labels, progress, thread
<1> QED BY <1>1, <1>5 DEF OpenInv

LEMMA StepPrimaryFirst == ASSUME OpenInv, PrimaryFirst PROVE OpenInv'
<1>1. pc = "header" /\ UNCHANGED <<program, device, job, progress, thread>>
  BY DEF PrimaryFirst
<1>2. program = "format" BY <1>1 DEF OpenInv, Enlargement, Types
<1>3. disk' \in {disk, WithUnit(0, Header(job.target)), WithUnit(0, Torn)}
  BY DEF PrimaryFirst, HeaderDone, HeaderFails, TornHeader
<1>4. disk' \in [Units -> Contents]
  <2>1. job.target \in Sizes BY DEF OpenInv, Types, Jobs
  <2>2. Header(job.target) \in Contents /\ Torn \in Contents BY <2>1, ContentTypes
  <2>3. disk \in [Units -> Contents] /\ 0 \in Units BY Ends DEF OpenInv, Types
  <2>4. WithUnit(0, Header(job.target)) \in [Units -> Contents] BY <2>2, <2>3, WithUnitKeeps
  <2>5. WithUnit(0, Torn) \in [Units -> Contents] BY <2>2, <2>3, WithUnitKeeps
  <2> QED BY <1>3, <2>3, <2>4, <2>5
<1>5. host' \in Sizes \cup {0} /\ pc' \in Labels
  BY DEF PrimaryFirst, Goto, Fail, Labels, OpenInv, Types
<1>6. Types' BY <1>1, <1>4, <1>5 DEF OpenInv, Types, progress, thread
<1> QED BY <1>1, <1>2, <1>6 DEF OpenInv

LEMMA StepGrow == ASSUME OpenInv, Grow PROVE OpenInv'
<1> USE DEF Goto
<1>1. pc = "grow" /\ pc' \in {"start", "idle"} /\ UNCHANGED <<program, device, job, progress, thread>>
  BY DEF Grow, Fail
<1>2. \/ UNCHANGED <<disk, host>> /\ (device \/ pc' = "idle")
      \/ host' = job.target /\ disk' = Resized(job.target)
  BY DEF Grow, Preallocated
<1>3. job.target \in Sizes /\ job.target \in Nat /\ host \in Nat /\ job.before \in Nat
  BY Ends DEF OpenInv, Types, Jobs
<1>4. disk' \in [Units -> Contents] /\ host' \in Sizes \cup {0}
  BY <1>2, <1>3, ResizedKeeps DEF OpenInv, Types
<1>5. Types' BY <1>1, <1>4 DEF OpenInv, Types, Labels, progress, thread
<1>6. ASSUME program = "expand" PROVE Enlargement'
  <2> USE <1>6 DEF OpenInv, Enlargement
  <2>1. host = job.before /\ job.before \in Sizes /\ OldSize <= job.from /\ job.from <= job.before
        /\ job.before <= job.target /\ job.from < job.target /\ (device => job.before = job.target)
    BY <1>1 DEF JobFits
  <2>2. disk[0] = Header(job.from) BY <1>1 DEF SomeHeader, OldPrimary
  <2>9. job.from \in Sizes BY <1>1 DEF JobFits
  <2>3. \A u \in Units : u < host => disk'[u] = disk[u]
    <3>1. \A u \in Units : u < host => u < job.target BY <1>3, <2>1 DEF Units
    <3>2. \A u \in Units : u < job.target /\ u < host => Resized(job.target)[u] = disk[u]
      BY <1>3, ResizedKeeps DEF Types
    <3> QED BY <1>2, <3>1, <3>2
  <2>4. disk'[0] = disk[0] /\ FilesKept'
    <3>1. 0 < host /\ \A u \in 1 .. OldSize - 2 : u < host BY <1>3, <2>1, Ends
    <3> QED BY <2>3, <3>1, Ends, FileUnits, <2>1 DEF FilesKept
  <2>5. host' \in {host, job.target} /\ (pc' = "start" => host' = job.target) BY <1>1, <1>2, <2>1
  <2>6. host' \in Sizes /\ host' >= OldSize /\ host <= host' BY <1>3, <2>1, <2>5, Ends
  <2>7. PrimaryFits'
    <3>1. OldSize <= disk[0].size /\ disk[0].size <= host BY <2>1, <2>2, <2>9, ContentTypes
    <3> QED BY <1>3, <2>4, <2>6, <2>9, <3>1, <2>2, ContentTypes, Ends DEF PrimaryFits
  <2>8. JobFits' BY <1>1, <1>3, <2>1, <2>5 DEF JobFits
  <2>10. SomeHeader' BY <1>1, <2>2, <2>4, <2>9, ContentTypes DEF SomeHeader, OldPrimary, Filling
  <2>11. WriterBehind' BY <1>1 DEF WriterBehind, Filling, thread
  <2> QED BY <1>1, <2>4, <2>6, <2>7, <2>8, <2>10, <2>11
<1> QED BY <1>1, <1>5, <1>6 DEF OpenInv

LEMMA StepStart == ASSUME OpenInv, StartFormatWriteThread PROVE OpenInv'
<1> USE DEF Goto
<1>1. pc = "start" /\ pc' \in {"fill", "idle"} /\ UNCHANGED <<program, device, disk, job>>
  BY DEF StartFormatWriteThread, Fail
<1>2. host' = host \/ (program = "format" /\ host' = 0) BY DEF StartFormatWriteThread, Fail
<1>3. job.from \in Nat BY DEF OpenInv, Types, Jobs
<1>4. Types'
  BY <1>1, <1>2, <1>3 DEF OpenInv, Types, StartFormatWriteThread, Labels, progress, thread
<1>5. ASSUME program = "expand" PROVE Enlargement'
  <2> USE <1>5 DEF OpenInv, Enlargement
  <2>1. host' = host BY <1>2
  <2>2. OldSize <= job.from /\ job.from \in Sizes BY <1>1 DEF JobFits
  <2>3. FilesKept' /\ PrimaryFits' BY <1>1, <2>1 DEF FilesKept, PrimaryFits
  <2>4. JobFits' BY <1>1, <2>1 DEF JobFits
  <2>5. SomeHeader' BY <1>1, <2>1, <2>2, ContentTypes DEF SomeHeader, OldPrimary, Filling
  <2>6. writer = "none" BY <1>1 DEF WriterBehind, Filling
  <2>7. CASE pc' = "idle"
    <3>1. UNCHANGED <<writer, running, exitRequested>> BY <2>7 DEF StartFormatWriteThread, thread
    <3> QED BY <1>1, <2>1, <2>3, <2>4, <2>5, <2>6, <2>7, <3>1 DEF WriterBehind, Filling
  <2>8. CASE pc' = "fill"
    <3>1. place' = job.from BY <2>8 DEF StartFormatWriteThread, Fail
    <3>6. writer' = writer \/ (running' = TRUE /\ exitRequested' = FALSE)
      <4>1. CASE device BY <2>8, <4>1 DEF StartFormatWriteThread, Fail
      <4>2. CASE ~device
        <5>1. UNCHANGED thread BY <2>8, <4>2 DEF StartFormatWriteThread, Fail
        <5> QED BY <5>1 DEF thread
      <4> QED BY <4>1, <4>2
    <3>2. place' >= OldSize BY <2>2, <3>1
    <3>3. WriterBehind' BY <2>6, <2>8, <3>2, <3>6 DEF WriterBehind, Filling
    <3> QED BY <1>1, <2>1, <2>3, <2>4, <2>5, <3>3
  <2> QED BY <1>1, <2>7, <2>8
<1> QED BY <1>1, <1>4, <1>5 DEF OpenInv

LEMMA StepFlushToThread == ASSUME OpenInv, FlushToThread PROVE OpenInv'
<1>1. pc = "fill" /\ pc' \in {"fill", "stop"} /\ nSecNo < job.end
      /\ UNCHANGED <<program, device, disk, host, job, place, writer, running, exitRequested>>
  BY DEF FlushToThread, Goto
<1>2. NextRequest \in [from : Nat, count : Nat] BY <1>1, NextRequestType DEF OpenInv, Types
<1>3. request' \in {request, NextRequest} /\ nSecNo' \in {nSecNo, nSecNo + NextRequest.count}
  BY DEF FlushToThread
<1>4. nSecNo \in Nat BY DEF OpenInv, Types
<1>5. nSecNo' \in Nat BY <1>2, <1>3, <1>4
<1>6. Types' BY <1>1, <1>2, <1>3, <1>5 DEF OpenInv, Types, Labels
<1>7. ASSUME program = "expand" PROVE Enlargement'
  <2> USE <1>7 DEF OpenInv, Enlargement
  <2>1. FilesKept' /\ PrimaryFits' BY <1>1 DEF FilesKept, PrimaryFits
  <2>2. JobFits' BY <1>1 DEF JobFits
  <2>3. SomeHeader' BY <1>1 DEF SomeHeader, OldPrimary, Filling
  <2>4. WriterBehind' BY <1>1 DEF WriterBehind, Filling
  <2> QED BY <1>1, <2>1, <2>2, <2>3, <2>4
<1> QED BY <1>1, <1>6, <1>7 DEF OpenInv

\* A write of data while the data area is filled: it is behind the files and the
\* primary header, which stay.
LEMMA WriteDataKeeps ==
  ASSUME OpenInv, NEW r \in [from : Nat, count : Nat], WriteData(r)
  PROVE  /\ disk' \in [Units -> Contents] /\ place' \in Nat /\ place' >= place
         /\ \A u \in Units : u < place => disk'[u] = disk[u]
<1>1. disk \in [Units -> Contents] /\ place \in Nat BY DEF OpenInv, Types
<1>2. disk' \in {disk, Written(r)} /\ place' \in {place, place + r.count} BY DEF WriteData
<1>3. place + r.count \in Nat /\ place + r.count >= place BY <1>1
<1>4. /\ Written(r) \in [Units -> Contents]
      /\ \A u \in Units : u < place => Written(r)[u] = disk[u]
  BY <1>1, WrittenKeeps
<1> QED BY <1>1, <1>2, <1>3, <1>4

\* What such a write leaves of an enlargement.
LEMMA FillKeeps ==
  ASSUME Enlargement, Types, pc \in Filling, UNCHANGED <<host, job>>,
         \A u \in Units : u < place => disk'[u] = disk[u]
  PROVE  FilesKept' /\ PrimaryFits' /\ disk'[0] = Header(job.from)
<1> USE DEF Enlargement
<1>1. place >= OldSize BY DEF WriterBehind
<1>2. \A u \in 1 .. OldSize - 2 : u < place BY <1>1, Ends DEF Types
<1>3. FilesKept' BY <1>2, FileUnits DEF FilesKept
<1>4. 0 < place BY <1>1, Ends DEF Types
<1>5. disk'[0] = disk[0] BY <1>4, Ends
<1> QED BY <1>3, <1>5 DEF PrimaryFits, SomeHeader, OldPrimary

LEMMA StepFlushDirectly == ASSUME OpenInv, FlushDirectly PROVE OpenInv'
<1>1. pc = "fill" /\ nSecNo < job.end /\ WriteData(NextRequest)
      /\ UNCHANGED <<program, device, host, job, thread>>
  BY DEF FlushDirectly
<1>2. pc' \in {"fill", "stop"} /\ nSecNo' \in {nSecNo, nSecNo + NextRequest.count}
  BY <1>1 DEF FlushDirectly, Goto
<1>3. NextRequest \in [from : Nat, count : Nat] BY <1>1, NextRequestType DEF OpenInv, Types
<1>4. /\ disk' \in [Units -> Contents] /\ place' \in Nat /\ place' >= place
      /\ \A u \in Units : u < place => disk'[u] = disk[u]
  BY <1>1, <1>3, WriteDataKeeps
<1>5. nSecNo \in Nat BY DEF OpenInv, Types
<1>6. nSecNo' \in Nat BY <1>2, <1>3, <1>5
<1>7. Types' BY <1>1, <1>2, <1>4, <1>6 DEF OpenInv, Types, Labels, thread
<1>8. ASSUME program = "expand" PROVE Enlargement'
  <2> USE <1>8 DEF OpenInv
  <2>1. FilesKept' /\ PrimaryFits' /\ disk'[0] = Header(job.from)
    BY <1>1, <1>4, FillKeeps DEF Filling
  <2> USE DEF Enlargement
  <2>2. JobFits' BY <1>1, <1>2 DEF JobFits
  <2>3. SomeHeader' BY <1>1, <1>2, <2>1 DEF SomeHeader, OldPrimary, Filling
  <2>4. place' >= OldSize BY <1>1, <1>4, Ends DEF WriterBehind, Filling, Types
  <2>5. WriterBehind' BY <1>1, <1>2, <2>4 DEF WriterBehind, Filling, thread
  <2> QED BY <1>1, <1>2, <2>1, <2>2, <2>3, <2>5
<1> QED BY <1>1, <1>7, <1>8 DEF OpenInv

LEMMA StepWriterWrites == ASSUME OpenInv, WriterWrites PROVE OpenInv'
<1>1. writer = "write" /\ WriteData(request) /\ writer' = "loop"
      /\ UNCHANGED <<program, device, host, job, pc, nSecNo, running, exitRequested, request>>
  BY DEF WriterWrites
<1>2. /\ disk' \in [Units -> Contents] /\ place' \in Nat /\ place' >= place
      /\ \A u \in Units : u < place => disk'[u] = disk[u]
  BY <1>1, WriteDataKeeps DEF OpenInv, Types
<1>3. Types' BY <1>1, <1>2 DEF OpenInv, Types
<1>4. ASSUME program = "expand" PROVE Enlargement'
  <2> USE <1>4 DEF OpenInv
  <2>1. pc \in Filling BY <1>1 DEF Enlargement, WriterBehind
  <2>2. FilesKept' /\ PrimaryFits' /\ disk'[0] = Header(job.from)
    BY <1>1, <1>2, <2>1, FillKeeps
  <2> USE DEF Enlargement
  <2>3. JobFits' BY <1>1 DEF JobFits
  <2>4. SomeHeader' BY <1>1, <2>1, <2>2 DEF SomeHeader, OldPrimary, Filling
  <2>5. place' >= OldSize BY <1>2, <2>1, Ends DEF WriterBehind, Types
  <2>6. WriterBehind' BY <1>1, <2>1, <2>5 DEF WriterBehind
  <2> QED BY <1>1, <2>2, <2>3, <2>4, <2>6
<1> QED BY <1>1, <1>3, <1>4 DEF OpenInv

LEMMA StepFilled == ASSUME OpenInv, Filled PROVE OpenInv'
<1>1. pc = "filled" /\ UNCHANGED <<program, device, job, progress, thread>> BY DEF Filled
<1>2. pc' \in {"backup", "idle"} /\ (host' = host \/ host' \in {0, job.before})
  BY DEF Filled, Goto, Fail
<1>3. disk' = disk \/ disk' = Resized(job.before) BY DEF Filled
<1>4. job.before \in Sizes \cup {0} /\ job.before \in Nat /\ host \in Nat BY Ends DEF OpenInv, Types, Jobs
<1>5. disk' \in [Units -> Contents]
  <2>1. disk \in [Units -> Contents] BY DEF OpenInv, Types
  <2>2. Resized(job.before) \in [Units -> Contents] BY <1>4, <2>1, ResizedKeeps
  <2> QED BY <1>3, <2>1, <2>2
<1>6. Types' BY <1>1, <1>2, <1>4, <1>5 DEF OpenInv, Types, Labels, progress, thread
<1>7. ASSUME program = "expand" PROVE Enlargement'
  <2> USE <1>7 DEF OpenInv, Enlargement
  <2>1. /\ job.before \in Sizes /\ OldSize <= job.from /\ job.from <= job.before
        /\ job.from \in Sizes /\ host = job.target /\ job.before <= job.target
    BY <1>1 DEF JobFits
  <2>2. disk[0] = Header(job.from) BY <1>1 DEF SomeHeader, OldPrimary
  <2>3. \/ disk' = disk /\ host' = host
        \/ disk' = Resized(job.before) /\ host' = job.before /\ pc' = "idle"
    BY <1>7 DEF Filled, Goto, Fail
  <2>4. \A u \in Units : u < job.before => disk'[u] = disk[u]
    <3>1. disk \in [Units -> Contents] BY DEF Types
    <3>2. \A u \in Units : u < job.before /\ u < host => Resized(job.before)[u] = disk[u]
      BY <1>4, <3>1, ResizedKeeps
    <3>3. \A u \in Units : u < job.before => u < host BY <1>4, <2>1 DEF Units
    <3> QED BY <2>3, <3>2, <3>3
  <2>5. 0 < job.before /\ \A u \in 1 .. OldSize - 2 : u < job.before BY <1>4, <2>1, Ends
  <2>6. disk'[0] = Header(job.from) BY <2>2, <2>4, <2>5, Ends
  <2>7. FilesKept' BY <2>4, <2>5, FileUnits DEF FilesKept
  <2>8. host' \in Sizes /\ host' >= OldSize /\ job.from <= host' BY <2>1, <2>3, Ends
  <2>9. PrimaryFits' BY <2>1, <2>6, <2>8, ContentTypes DEF PrimaryFits
  <2>10. JobFits' BY <1>1, <1>2, <2>3, <2>1 DEF JobFits
  <2>11. SomeHeader' BY <1>1, <1>2, <2>1, <2>6, ContentTypes DEF SomeHeader, OldPrimary, Filling
  <2>12. WriterBehind' BY <1>1, <1>2 DEF WriterBehind, Filling, thread
  <2> QED BY <1>2, <2>7, <2>8, <2>9, <2>10, <2>11, <2>12
<1> QED BY <1>1, <1>6, <1>7 DEF OpenInv

\* What a write of a header or of the old backup header can do: one unit is new.
LEMMA OneUnit ==
  ASSUME Types, NEW v \in Units, NEW C \in SUBSET Contents,
         disk' = disk \/ \E c \in C : disk' = WithUnit(v, c)
  PROVE  /\ disk' \in [Units -> Contents] /\ disk'[v] \in {disk[v]} \cup C
         /\ \A u \in Units \ {v} : disk'[u] = disk[u]
<1>1. disk \in [Units -> Contents] BY DEF Types
<1>2. \A c \in C : /\ WithUnit(v, c) \in [Units -> Contents] /\ WithUnit(v, c)[v] = c
                   /\ \A u \in Units \ {v} : WithUnit(v, c)[u] = disk[u]
  BY <1>1, WithUnitKeeps
<1> QED BY <1>1, <1>2

\* The headers and the old backup header are no files.
LEMMA FilesAside ==
  ASSUME FilesKept, NEW v \in Units, v = 0 \/ v >= OldSize - 1,
         \A u \in Units \ {v} : disk'[u] = disk[u]
  PROVE  FilesKept'
BY FileUnits, Ends DEF FilesKept, Units

LEMMA StepBackupHeader == ASSUME OpenInv, BackupHeader PROVE OpenInv'
<1>1. pc = "backup" /\ UNCHANGED <<program, device, job, progress, thread>> BY DEF BackupHeader
<1>2. pc' \in {"idle", "primary"} /\ (pc' = "idle" \/ program # "format")
      /\ (host' = host \/ (host' = 0 /\ program = "format"))
  <2>1. host' = host \/ (host' = 0 /\ program = "format")
    <3>1. UNCHANGED host \/ Fail BY DEF BackupHeader
    <3>2. device \in BOOLEAN BY DEF OpenInv, Types
    <3>3. Fail => host' = host \/ (host' = 0 /\ program = "format") BY <3>2 DEF Fail
    <3> QED BY <3>1, <3>3
  <2>2. pc' \in {"idle", "primary"} BY DEF BackupHeader, Goto, Fail
  <2>3. pc' = "idle" \/ program # "format" BY DEF BackupHeader, Goto, Fail
  <2> QED BY <2>1, <2>2, <2>3
<1>3. job.target \in Sizes /\ job.target - 1 \in Units BY Ends DEF OpenInv, Types, Jobs
<1> DEFINE C == {Header(job.target), Torn}
<1>4. C \in SUBSET Contents BY <1>3, ContentTypes
<1>5. disk' = disk \/ \E c \in C : disk' = WithUnit(job.target - 1, c)
  BY DEF BackupHeader, HeaderDone, HeaderFails, TornHeader
<1>6. /\ disk' \in [Units -> Contents]
      /\ \A u \in Units \ {job.target - 1} : disk'[u] = disk[u]
  BY <1>3, <1>4, <1>5, OneUnit DEF OpenInv
<1>7. Types' BY <1>1, <1>2, <1>6 DEF OpenInv, Types, Labels, progress, thread
<1>8. ASSUME program = "expand" PROVE Enlargement'
  <2> USE <1>8 DEF OpenInv, Enlargement
  <2>1. /\ OldSize <= job.from /\ job.from < job.target /\ job.from \in Sizes
        /\ host = job.target /\ host' = host
    BY <1>1, <1>2 DEF JobFits
  <2>2. job.target - 1 # 0 /\ job.target - 1 >= OldSize - 1 BY <1>3, <2>1, Ends
  <2>3. FilesKept' BY <1>3, <1>6, <2>2, FilesAside
  <2>4. disk'[0] = disk[0] BY <1>6, <2>2, Ends
  <2>5. PrimaryFits' BY <2>1, <2>4 DEF PrimaryFits
  <2>6. JobFits' BY <1>1, <1>2, <2>1 DEF JobFits
  <2>7. pc' = "primary" => disk' = WithUnit(job.target - 1, Header(job.target))
    BY <1>8 DEF BackupHeader, HeaderDone, Goto, Fail
  <2>8. pc' = "primary" => disk'[job.target - 1] = Header(job.target)
    BY <1>3, <2>7, WithUnitKeeps, ContentTypes DEF Types
  <2>9. disk[0] = Header(job.from) BY <1>1 DEF SomeHeader, OldPrimary
  <2>10. SomeHeader' BY <1>2, <2>1, <2>4, <2>8, <2>9, ContentTypes DEF SomeHeader, OldPrimary, Filling
  <2>11. WriterBehind' BY <1>1, <1>2 DEF WriterBehind, Filling, thread
  <2> QED BY <1>2, <2>1, <2>3, <2>5, <2>6, <2>10, <2>11
<1> QED BY <1>1, <1>7, <1>8 DEF OpenInv

LEMMA StepPrimaryHeader == ASSUME OpenInv, PrimaryHeader PROVE OpenInv'
<1>1. pc = "primary" /\ UNCHANGED <<program, device, job, progress, thread>> BY DEF PrimaryHeader
<1>2. pc' \in {"idle", "wipe"} /\ (host' = host \/ (host' = 0 /\ program = "format"))
  <2>1. host' = host \/ (host' = 0 /\ program = "format")
    <3>1. UNCHANGED host \/ Fail BY DEF PrimaryHeader
    <3>2. device \in BOOLEAN BY DEF OpenInv, Types
    <3>3. Fail => host' = host \/ (host' = 0 /\ program = "format") BY <3>2 DEF Fail
    <3> QED BY <3>1, <3>3
  <2>2. pc' \in {"idle", "wipe"} BY DEF PrimaryHeader, Goto, Fail
  <2> QED BY <2>1, <2>2
<1>3. job.target \in Sizes /\ 0 \in Units BY Ends DEF OpenInv, Types, Jobs
<1> DEFINE C == {Header(job.target), Torn}
<1>4. C \in SUBSET Contents BY <1>3, ContentTypes
<1>5. disk' = disk \/ \E c \in C : disk' = WithUnit(0, c)
  BY DEF PrimaryHeader, HeaderDone, HeaderFails, TornHeader
<1>6. /\ disk' \in [Units -> Contents] /\ disk'[0] \in {disk[0]} \cup C
      /\ \A u \in Units \ {0} : disk'[u] = disk[u]
  BY <1>3, <1>4, <1>5, OneUnit DEF OpenInv
<1>7. Types' BY <1>1, <1>2, <1>6 DEF OpenInv, Types, Labels, progress, thread
<1>8. ASSUME program = "expand" PROVE Enlargement'
  <2> USE <1>8 DEF OpenInv, Enlargement
  <2>1. host = job.target /\ host' = host /\ OldSize <= job.target
    BY <1>1, <1>2 DEF JobFits
  <2>2. FilesKept' BY <1>3, <1>6, FilesAside
  <2>3. disk'[host - 1] = Header(host)
    <3>1. host - 1 \in Units \ {0} BY <1>3, <2>1, Ends
    <3> QED BY <1>1, <1>6, <3>1 DEF SomeHeader
  <2>4. Torn.is # "header" BY DEF Torn, Plain
  <2>5. PrimaryFits'
    <3>1. disk'[0] = disk[0] \/ disk'[0] = Header(host) \/ disk'[0] = Torn BY <1>6, <2>1
    <3>2. host <= host BY Ends
    <3> QED BY <2>1, <2>4, <3>1, <3>2, <1>3, ContentTypes DEF PrimaryFits
  <2>6. JobFits' BY <1>1, <1>2, <2>1 DEF JobFits
  <2>7. pc' = "wipe" => disk' = WithUnit(0, Header(job.target))
    BY DEF PrimaryHeader, HeaderDone, Goto, Fail
  <2>8. pc' = "wipe" => disk'[0] = Header(job.target)
    BY <1>3, <2>7, WithUnitKeeps, ContentTypes DEF Types
  <2>9. SomeHeader' BY <1>2, <2>1, <2>3, <2>8 DEF SomeHeader, OldPrimary, Filling
  <2>10. WriterBehind' BY <1>1, <1>2 DEF WriterBehind, Filling, thread
  <2> QED BY <1>2, <2>1, <2>2, <2>5, <2>6, <2>9, <2>10
<1> QED BY <1>1, <1>7, <1>8 DEF OpenInv

LEMMA StepWipe == ASSUME OpenInv, WipeOldBackupHeader PROVE OpenInv'
<1>1. pc = "wipe" /\ pc' = "idle" /\ UNCHANGED <<program, device, host, job, progress, thread>>
  BY DEF WipeOldBackupHeader, Goto
<1>2. disk' = disk \/ disk' = WithUnit(job.from - 1, Random) BY DEF WipeOldBackupHeader
<1>3. Random \in Contents BY ContentTypes
<1>4. CASE program = "format"
  <2>1. disk' \in [Units -> Contents] BY <1>2, <1>3 DEF WithUnit, OpenInv, Types
  <2>2. Types' BY <1>1, <2>1 DEF OpenInv, Types, Labels, progress, thread
  <2> QED BY <1>1, <1>4, <2>2 DEF OpenInv
<1>5. CASE program = "expand"
  <2> USE <1>5 DEF OpenInv, Enlargement
  <2>1. job.from \in Sizes /\ OldSize <= job.from BY <1>1 DEF JobFits
  <2>2. job.from - 1 \in Units /\ job.from - 1 # 0 /\ job.from - 1 >= OldSize - 1 BY <2>1, Ends
  <2>3. /\ disk' \in [Units -> Contents]
        /\ \A u \in Units \ {job.from - 1} : disk'[u] = disk[u]
    BY <1>2, <1>3, <2>2, OneUnit
  <2>4. Types' BY <1>1, <2>3 DEF Types, Labels, progress, thread
  <2>5. FilesKept' BY <2>2, <2>3, FilesAside
  <2>6. disk'[0] = disk[0] BY <2>2, <2>3, Ends
  <2>7. PrimaryFits' /\ JobFits' BY <1>1, <2>6 DEF PrimaryFits, JobFits
  <2>8. SomeHeader' BY <1>1, <2>6, ContentTypes DEF SomeHeader, OldPrimary, Filling
  <2>9. WriterBehind' BY <1>1 DEF WriterBehind, Filling, thread
  <2> QED BY <1>1, <2>4, <2>5, <2>7, <2>8, <2>9
<1> QED BY <1>4, <1>5 DEF OpenInv, Types

\* The process can die at any place.
LEMMA StepProcessDies == ASSUME OpenInv, ProcessDies PROVE OpenInv'
<1>1. /\ pc # "idle" /\ pc' = "idle" /\ writer' = "none"
      /\ running' = FALSE /\ exitRequested' = FALSE /\ request' = NoRequest
      /\ UNCHANGED <<program, device, host, job, progress>>
  BY DEF ProcessDies, Goto
<1>2. job.target \in Sizes /\ job.target - 1 \in Units /\ 0 \in Units BY Ends DEF OpenInv, Types, Jobs
<1> DEFINE C == {Header(job.target), Torn}
<1>3. C \in SUBSET Contents /\ {Torn} \in SUBSET Contents BY <1>2, ContentTypes
<1>4. disk \in [Units -> Contents] /\ place \in Nat BY DEF OpenInv, Types
<1>5. \/ disk' = disk
      \/ pc \in {"header", "primary"} /\ \E c \in C : disk' = WithUnit(0, c)
      \/ pc = "backup" /\ \E c \in C : disk' = WithUnit(job.target - 1, c)
      \/ pc = "wipe" /\ disk' = WithUnit(job.from - 1, Torn)
      \/ pc = "fill" /\ nSecNo < job.end /\ disk' = Written(NextRequest)
      \/ writer = "write" /\ disk' = Written(request)
  BY DEF ProcessDies, TornHeader
<1>6. \A r \in [from : Nat, count : Nat] :
        /\ Written(r) \in [Units -> Contents]
        /\ \A u \in Units : u < place => Written(r)[u] = disk[u]
  BY <1>4, WrittenKeeps
<1>7. nSecNo < job.end => NextRequest \in [from : Nat, count : Nat]
  BY NextRequestType DEF OpenInv, Types
<1>8. request \in [from : Nat, count : Nat] BY DEF OpenInv, Types
<1>9. disk' \in [Units -> Contents]
  <2>1. \A c \in Contents, v \in Units : WithUnit(v, c) \in [Units -> Contents]
    BY <1>4, WithUnitKeeps
  <2>2. WithUnit(job.from - 1, Torn) \in [Units -> Contents] BY <1>3, <1>4 DEF WithUnit
  <2>3. \A c \in C : WithUnit(0, c) \in [Units -> Contents]
          /\ WithUnit(job.target - 1, c) \in [Units -> Contents]
    BY <1>2, <1>3, <2>1
  <2>4. Written(request) \in [Units -> Contents] BY <1>6, <1>8
  <2>5. nSecNo < job.end => Written(NextRequest) \in [Units -> Contents] BY <1>6, <1>7
  <2> QED BY <1>4, <1>5, <2>2, <2>3, <2>4, <2>5
<1>10. Types' BY <1>1, <1>9 DEF OpenInv, Types, NoRequest, Labels, progress
<1>11. ASSUME program = "expand" PROVE Enlargement'
  <2> USE <1>11 DEF OpenInv, Enlargement
  <2>1. /\ OldSize <= job.from /\ job.from \in Sizes /\ job.from < job.target
        /\ host = IF pc = "grow" THEN job.before ELSE job.target
        /\ job.from <= job.before
    BY <1>1 DEF JobFits
  <2>2. job.from <= host BY <2>1, Ends, <1>2
  <2>3. FilesKept' /\ PrimaryFits' /\ (disk'[0].is = "header" \/ disk'[host - 1] = Header(host))
    <3>1. CASE disk' = disk
      <4>1. FilesKept' /\ PrimaryFits' BY <1>1, <3>1 DEF FilesKept, PrimaryFits
      <4>2. pc \in OldPrimary \cup {"primary", "wipe"} BY <1>1 DEF Types, Labels, OldPrimary, Filling
      <4>3. CASE pc = "primary" BY <3>1, <4>1, <4>3 DEF SomeHeader
      <4>4. CASE pc \in OldPrimary BY <2>1, <3>1, <4>1, <4>4, ContentTypes DEF SomeHeader
      <4>5. CASE pc = "wipe" BY <3>1, <4>1, <4>5, ContentTypes DEF SomeHeader
      <4> QED BY <4>2, <4>3, <4>4, <4>5
    <3>2. CASE pc = "primary" /\ \E c \in C : disk' = WithUnit(0, c)
      <4>1. /\ disk'[0] \in {disk[0]} \cup C /\ \A u \in Units \ {0} : disk'[u] = disk[u]
        BY <1>2, <1>3, <3>2, OneUnit
      <4>2. FilesKept' BY <1>2, <4>1, FilesAside
      <4>3. host = job.target /\ host - 1 \in Units \ {0} BY <1>2, <2>1, <3>2, Ends
      <4>4. disk'[host - 1] = Header(host) BY <3>2, <4>1, <4>3 DEF SomeHeader
      <4>5. Torn.is # "header" BY DEF Torn, Plain
      <4>6. disk'[0] = disk[0] \/ disk'[0] = Header(host) \/ disk'[0] = Torn BY <4>1, <4>3
      <4>7. host <= host BY Ends
      <4> QED BY <1>1, <1>2, <4>2, <4>3, <4>4, <4>5, <4>6, <4>7, ContentTypes DEF PrimaryFits
    <3>3. CASE \E v \in Units, c \in Contents :
                 v >= OldSize - 1 /\ v # 0 /\ disk' = WithUnit(v, c)
               /\ pc \in {"backup", "wipe"}
      <4>1. PICK v \in Units, c \in Contents : v >= OldSize - 1 /\ v # 0 /\ disk' = WithUnit(v, c)
        BY <3>3
      <4>2. \A u \in Units \ {v} : disk'[u] = disk[u] BY <1>4, <4>1, WithUnitKeeps
      <4>3. FilesKept' BY <4>1, <4>2, FilesAside
      <4>4. disk'[0] = disk[0] BY <1>2, <4>1, <4>2
      <4>5. disk[0].is = "header" BY <1>1, <2>1, <3>3, ContentTypes DEF SomeHeader, OldPrimary
      <4> QED BY <1>1, <4>3, <4>4, <4>5 DEF PrimaryFits
    <3>4. CASE pc \in Filling /\ \A u \in Units : u < place => disk'[u] = disk[u]
      <4>1. FilesKept' /\ PrimaryFits' /\ disk'[0] = Header(job.from) BY <1>1, <3>4, FillKeeps
      <4> QED BY <2>1, <4>1, ContentTypes
    <3>5. pc # "header" OBVIOUS
    <3>6. pc = "backup" => job.target - 1 >= OldSize - 1 /\ job.target - 1 # 0
      BY <1>2, <2>1, Ends
    <3>7. job.from - 1 \in Units /\ job.from - 1 >= OldSize - 1 /\ job.from - 1 # 0 BY <2>1, Ends
    <3>8. writer = "write" => pc \in Filling BY DEF WriterBehind
    <3>9. Torn \in Contents /\ Header(job.target) \in Contents BY <1>3
    <3>10. CASE pc = "backup" /\ \E c \in C : disk' = WithUnit(job.target - 1, c)
      BY <1>2, <3>3, <3>6, <3>9, <3>10
    <3>11. CASE pc = "wipe" /\ disk' = WithUnit(job.from - 1, Torn) BY <3>3, <3>7, <3>9, <3>11
    <3>12. CASE pc = "fill" /\ nSecNo < job.end /\ disk' = Written(NextRequest)
      BY <1>6, <1>7, <3>4, <3>12 DEF Filling
    <3>13. CASE writer = "write" /\ disk' = Written(request) BY <1>6, <1>8, <3>4, <3>8, <3>13
    <3> QED BY <1>5, <3>1, <3>2, <3>5, <3>10, <3>11, <3>12, <3>13
  <2>4. JobFits' BY <1>1 DEF JobFits
  <2>5. SomeHeader' BY <1>1, <2>3 DEF SomeHeader, OldPrimary, Filling
  <2>6. WriterBehind' BY <1>1 DEF WriterBehind, Filling
  <2> QED BY <1>1, <2>3, <2>4, <2>5, <2>6
<1> QED BY <1>1, <1>10, <1>11 DEF OpenInv

LEMMA Stutter == ASSUME OpenInv, UNCHANGED vars PROVE OpenInv'
<1> USE DEF vars, progress, thread
<1>1. Types' BY DEF OpenInv, Types
<1>2. ASSUME program = "expand" PROVE Enlargement'
  <2> USE <1>2 DEF OpenInv, Enlargement
  <2>1. FilesKept' /\ PrimaryFits' BY DEF FilesKept, PrimaryFits
  <2>2. JobFits' BY DEF JobFits
  <2>3. SomeHeader' BY DEF SomeHeader
  <2>4. WriterBehind' BY DEF WriterBehind
  <2> QED BY <2>1, <2>2, <2>3, <2>4
<1> QED BY <1>1, <1>2 DEF OpenInv

LEMMA OpenInvHolds == Spec => []OpenInv
<1>1. Init => OpenInv BY OpensInit
<1>2. OpenInv /\ [Next]_vars => OpenInv'
  <2> SUFFICES ASSUME OpenInv, [Next]_vars PROVE OpenInv' OBVIOUS
  <2>1. CASE Job
    BY <2>1, StepCreateVolume, StepExpandVolume, StepPrimaryFirst, StepGrow, StepSkipFill,
       StepStart, StepEndFill, StepFlushToThread, StepFlushDirectly, StepStop, StepJoin,
       StepFilled, StepBackupHeader, StepPrimaryHeader, StepWipe DEF Job
  <2>2. CASE Writer BY <2>2, StepWriterLoops, StepWriterWakes, StepWriterWrites DEF Writer
  <2>3. CASE ProcessDies BY <2>3, StepProcessDies
  <2>4. CASE Rest BY <2>4, Stutter DEF Rest
  <2>5. CASE UNCHANGED vars BY <2>5, Stutter
  <2> QED BY <2>1, <2>2, <2>3, <2>4, <2>5 DEF Next
<1> QED BY <1>1, <1>2, PTL DEF Spec

\* At every moment of any enlargement, also after a failed or a torn write, a
\* header in its place opens the volume within its host, and the files of the
\* volume are as they were.  (ExpandVolume: the backup header first.)
THEOREM EnlargementOpens == Spec => []VolumeOpens
<1>1. OpenInv => VolumeOpens BY OpensFollows
<1> QED BY <1>1, OpenInvHolds, PTL

(***************************************************************************)
(* A job that reports success.  The job and the thread share one buffer:    *)
(* it is empty, or handed over, or being written, and what was handed over  *)
(* before it is written.                                                    *)
(***************************************************************************)
Starting == {"header", "grow", "start", "fill"}
Closing == {"backup", "primary", "wipe"}

Span ==
  /\ pc # "idle" => 1 <= job.from /\ job.from <= job.end /\ job.end <= job.target
  /\ program = "format" => pc \notin {"grow", "primary", "wipe"}
Handshake ==
  \/ empty /\ ~full /\ writer \in {"loop", "wait"}
  \/ ~empty /\ full /\ writer \in {"loop", "wait"} /\ result = "ok"
  \/ ~empty /\ ~full /\ writer = "write" /\ result = "ok"
Thread ==
  /\ writer # "none" => device /\ pc \in Filling
  /\ ~device => ~running
  /\ device /\ pc \in {"fill", "stop"} => running /\ ~exitRequested /\ Handshake
  /\ pc = "join" => exitRequested /\ writer # "write"

WrittenTo(n) == \A u \in job.from .. n - 1 : disk[u] = Random
\* What was handed over ends at nSecNo; the units before it are written, and its
\* own when the buffer is empty again without an error.
HandedOver ==
  /\ job.from <= request.from /\ request.from + request.count = nSecNo
  /\ WrittenTo(request.from)
  /\ ~empty => place = request.from
  /\ empty /\ result = "ok" => place = nSecNo /\ WrittenTo(nSecNo)
Progress ==
  pc \in {"fill", "stop"} =>
    /\ job.from <= nSecNo /\ nSecNo <= job.end
    /\ ~device => place = nSecNo /\ WrittenTo(nSecNo)
    /\ device /\ nSecNo = job.from => empty /\ result = "ok" /\ place = nSecNo
    /\ device /\ nSecNo # job.from => HandedOver
Outcome ==
  /\ pc \in Starting \cup Closing => status = "ok"
  /\ pc \in {"stop", "join", "filled"} => status \in {"ok", "failed"}
  /\ pc = "stop" /\ status = "ok" => nSecNo = job.end
  /\ pc \in {"join", "filled"} \cup Closing /\ status = "ok" =>
       \A u \in Confirmed \ {job.target - 1} : disk[u] = Random
Heads ==
  /\ program = "format" /\ pc \notin {"header", "idle"} => disk[0] = Header(job.target)
  /\ pc \in {"primary", "wipe"} => disk[job.target - 1] = Header(job.target)
  /\ pc = "wipe" => disk[0] = Header(job.target)
Usage ==
  used \in [jobs : 0 .. MaxJobs, failures : 0 .. MaxFailures, crashes : 0 .. MaxCrashes]
Bounds ==
  /\ job.from <= MaxSize /\ job.end <= MaxSize /\ nSecNo <= MaxSize /\ place <= MaxSize
  /\ request.from <= MaxSize /\ request.count <= BufferSize
  /\ status \in {"none", "ok", "warned", "failed"} /\ result \in {"ok", "failed"}
  /\ empty \in BOOLEAN /\ full \in BOOLEAN
  /\ Usage
  /\ pc \notin {"idle", "grow"} => job.target <= host
WrittenInv ==
  OpenInv /\ Bounds /\ Span /\ Thread /\ Progress /\ Outcome /\ Heads /\ SuccessMeansWritten

LEMMA TypesFollow == ASSUME WrittenInv PROVE TypeOK
<1>1. MaxSize \in Nat /\ BufferSize \in Nat BY MaxSizeBounds, SizesAssumption
<1>2. Types BY DEF WrittenInv, OpenInv
<1>3. job \in [target : Sizes, from : 0 .. MaxSize, end : 0 .. MaxSize, before : Sizes \cup {0}]
  BY <1>1, <1>2 DEF Types, Jobs, WrittenInv, Bounds
<1>4. request \in [from : 0 .. MaxSize, count : 0 .. BufferSize]
  BY <1>1, <1>2 DEF Types, WrittenInv, Bounds
<1>5. nSecNo \in 0 .. MaxSize /\ place \in 0 .. MaxSize BY <1>1, <1>2 DEF Types, WrittenInv, Bounds
<1>6. pc \in {"fill", "stop", "join"} => job.end <= host
  <2>1. job.end \in Nat /\ job.target \in Nat /\ host \in Nat BY <1>2, Ends DEF Types, Jobs
  <2> QED BY <2>1 DEF WrittenInv, Bounds, Span
<1>7. pc = "fill" => nSecNo \in job.from .. job.end /\ (device \/ place = nSecNo)
  BY <1>2, <1>3, <1>5 DEF Types, WrittenInv, Progress
<1>8. writer = "write" => place = request.from /\ place + request.count \in job.from .. job.end
  <2> SUFFICES ASSUME writer = "write"
               PROVE  place = request.from /\ place + request.count \in job.from .. job.end
    OBVIOUS
  <2>1. device /\ pc \in {"fill", "stop"} BY DEF WrittenInv, Thread, Filling
  <2>2. ~empty BY <2>1 DEF WrittenInv, Thread, Handshake
  <2>3. nSecNo <= job.end /\ HandedOver BY <2>1, <2>2 DEF WrittenInv, Progress
  <2> QED BY <1>3, <1>4, <1>5, <2>2, <2>3 DEF HandedOver
<1> QED BY <1>2, <1>3, <1>4, <1>5, <1>6, <1>7, <1>8 DEF TypeOK, Types, WrittenInv, Bounds, Usage

LEMMA SizeBounds == MaxSize \in Nat /\ \A s \in Sizes : s \in Nat /\ s >= 3 /\ s <= MaxSize
BY MaxSizeBounds

LEMMA WrittenInit == ASSUME Init PROVE WrittenInv
<1>1. OpenInv BY OpensInit
<1>2. Usage
  BY SizesAssumption DEF Init, Usage
<1>3. MaxSize \in Nat /\ BufferSize \in Nat BY MaxSizeBounds, SizesAssumption
<1>4. Bounds
  <2>1. job.from = 0 /\ job.end = 0 /\ request.from = 0 /\ request.count = 0
    BY DEF Init, NoJob, NoRequest
  <2>2. pc = "idle" /\ status = "none" /\ result = "ok" /\ empty = FALSE /\ full = FALSE
        /\ nSecNo = 0 /\ place = 0
    BY DEF Init
  <2>3. job.from <= MaxSize /\ job.end <= MaxSize /\ nSecNo <= MaxSize /\ place <= MaxSize BY <1>3, <2>1, <2>2
  <2>4. request.from <= MaxSize BY <1>3, <2>1, <2>2
  <2>5. request.count <= BufferSize BY <1>3, <2>1, <2>2
  <2>6. empty \in BOOLEAN /\ full \in BOOLEAN BY <2>2
  <2> QED BY <1>2, <2>2, <2>3, <2>4, <2>5, <2>6 DEF Bounds
<1> QED BY <1>1, <1>4 DEF Init, WrittenInv, Span, Thread, Progress, Outcome, Heads, SuccessMeansWritten,
  Filling, Starting, Closing

\* The invariant as it is after a step, from its parts.
LEMMA Idle ==
  ASSUME pc = "idle", status \notin {"ok", "warned"}, writer = "none", ~running,
         OpenInv, Bounds
  PROVE  WrittenInv
BY DEF WrittenInv, Span, Thread, Progress, Outcome, Heads, SuccessMeansWritten, Filling, Starting, Closing

LEMMA WrittenCreateVolume == ASSUME WrittenInv, OpenInv', CreateVolume PROVE WrittenInv'
<1>1. /\ program = "format" /\ pc = "idle" /\ pc' = "header" /\ status' = "ok"
      /\ UNCHANGED <<program, device, nSecNo, place, writer, running, exitRequested, empty, full, request, result>>
      /\ used.jobs < MaxJobs /\ used' = [used EXCEPT !.jobs = @ + 1]
  BY DEF CreateVolume, BeginJob, Goto, progress, thread
<1>2. PICK target \in Sizes, end \in Int :
        end \in {1, 2, target - 1} /\ host' = target /\ job' = [target |-> target, from |-> 1, end |-> end, before |-> host]
  BY SizesAssumption DEF CreateVolume, BeginJob
<1>3. target \in Nat /\ target >= 3 /\ target <= MaxSize BY MaxSizeBounds
<1>4. Bounds'
  <2>1. Usage'
    BY <1>1, SizesAssumption DEF WrittenInv, Bounds, Usage
  <2> QED BY <1>1, <1>2, <1>3, <2>1, MaxSizeBounds DEF WrittenInv, Bounds
<1>5. Span' BY <1>1, <1>2, <1>3 DEF Span
<1>6. Thread' BY <1>1 DEF WrittenInv, Thread, Filling
<1> QED BY <1>1, <1>4, <1>5, <1>6 DEF WrittenInv, Progress, Outcome, Heads, SuccessMeansWritten, Starting, Closing

LEMMA WrittenExpandVolume == ASSUME WrittenInv, OpenInv', ExpandVolume PROVE WrittenInv'
<1>1. /\ program = "expand" /\ pc = "idle" /\ pc' = "grow" /\ status' = "ok"
      /\ UNCHANGED <<program, device, nSecNo, place, writer, running, exitRequested, empty, full, request, result, disk, host>>
      /\ used.jobs < MaxJobs /\ used' = [used EXCEPT !.jobs = @ + 1]
  BY DEF ExpandVolume, BeginJob, Goto, progress, thread
<1>2. disk[0].size \in Sizes
  BY Ends, ContentTypes DEF ExpandVolume, WrittenInv, OpenInv, Types
<1>3. PICK target \in Sizes, end \in Sizes :
        target > disk[0].size /\ end \in {disk[0].size, target}
        /\ job' = [target |-> target, from |-> disk[0].size, end |-> end, before |-> host]
  BY <1>2 DEF ExpandVolume, BeginJob
<1>4. target \in Nat /\ disk[0].size \in Nat /\ disk[0].size >= 3 /\ target <= MaxSize BY <1>2, SizeBounds
<1>5. Bounds'
  <2>1. Usage'
    BY <1>1, SizesAssumption DEF WrittenInv, Bounds, Usage
  <2> QED BY <1>1, <1>3, <1>4, <2>1, MaxSizeBounds DEF WrittenInv, Bounds
<1>6. Span' BY <1>1, <1>3, <1>4 DEF Span
<1>7. Thread' BY <1>1 DEF WrittenInv, Thread, Filling
<1> QED BY <1>1, <1>5, <1>6, <1>7 DEF WrittenInv, Progress, Outcome, Heads, SuccessMeansWritten, Starting, Closing

\* What is used of the bounds stays within them.
LEMMA FailureBounded ==
  ASSUME Bounds, UNCHANGED used \/ (CanFail /\ CountFailure)
  PROVE  Usage'
BY SizesAssumption DEF Bounds, Usage, CanFail, CountFailure

\* Files keep being files, and a job that failed is idle.
LEMMA Failed ==
  ASSUME WrittenInv, OpenInv', Fail, pc \notin Filling, UNCHANGED <<program, device, job, progress, thread>>,
         UNCHANGED used \/ (CanFail /\ CountFailure)
  PROVE  WrittenInv'
<1>1. pc' = "idle" /\ status' = "failed" BY DEF Fail, Goto
<1>2. writer = "none" BY DEF WrittenInv, Thread
<1>3. Bounds' BY <1>1, FailureBounded DEF WrittenInv, Bounds, Usage, progress, thread
<1> QED BY <1>1, <1>2, <1>3 DEF WrittenInv, Span, Thread, Progress, Outcome, Heads, SuccessMeansWritten,
  Filling, Starting, Closing, thread

LEMMA WrittenPrimaryFirst == ASSUME WrittenInv, OpenInv', PrimaryFirst PROVE WrittenInv'
<1>1. pc = "header" /\ UNCHANGED <<program, device, job, progress, thread>> BY DEF PrimaryFirst
<1>2. CASE HeaderFails(0) /\ Fail BY <1>1, <1>2, Failed DEF HeaderFails, Filling
<1>3. CASE HeaderDone(0) /\ Goto("start") /\ UNCHANGED <<host, status>>
  <2>1. pc' = "start" /\ UNCHANGED <<used, host, status>> BY <1>3 DEF HeaderDone, Goto
  <2>2. disk'[0] = Header(job.target) BY <1>3, Ends DEF HeaderDone, WithUnit, WrittenInv, OpenInv, Types
  <2>3. Bounds' BY <1>1, <2>1 DEF WrittenInv, Bounds, Usage, progress, thread
  <2>4. Span' BY <1>1, <2>1 DEF WrittenInv, Span
  <2>5. Thread' BY <1>1, <2>1 DEF WrittenInv, Thread, Filling, thread
  <2> QED BY <1>1, <2>1, <2>2, <2>3, <2>4, <2>5
      DEF WrittenInv, Progress, Outcome, Heads, SuccessMeansWritten, Starting, Closing
<1> QED BY <1>2, <1>3 DEF PrimaryFirst

LEMMA WrittenGrow == ASSUME WrittenInv, OpenInv', Grow PROVE WrittenInv'
<1>1. pc = "grow" /\ program = "expand" /\ UNCHANGED <<program, device, job, progress, thread>>
  BY DEF Grow, WrittenInv, Span, OpenInv, Types
<1>2. UNCHANGED used \/ (CanFail /\ CountFailure) BY DEF Grow
<1>3. writer = "none" BY <1>1 DEF WrittenInv, Thread, Filling
<1>4. CASE pc' = "idle" /\ status' = "failed"
  <2>1. Bounds' BY <1>1, <1>2, <1>4, FailureBounded DEF WrittenInv, Bounds, Usage, progress, thread
  <2> QED BY <1>1, <1>3, <1>4, <2>1 DEF WrittenInv, Span, Thread, Progress, Outcome, Heads,
        SuccessMeansWritten, Filling, Starting, Closing, thread
<1>5. CASE pc' = "start" /\ UNCHANGED status
  <2>1. job.target <= host'
    <3>1. job.target \in Nat BY Ends DEF WrittenInv, OpenInv, Types, Jobs
    <3>2. host' = job.target BY <1>1, <1>5 DEF OpenInv, Enlargement, JobFits
    <3> QED BY <3>1, <3>2
  <2>2. Bounds' BY <1>1, <1>2, <1>5, <2>1, FailureBounded DEF WrittenInv, Bounds, Usage, progress, thread
  <2>3. Span' BY <1>1, <1>5 DEF WrittenInv, Span
  <2>4. Thread' BY <1>1, <1>3, <1>5 DEF WrittenInv, Thread, thread
  <2> QED BY <1>1, <1>5, <2>2, <2>3, <2>4
      DEF WrittenInv, Progress, Outcome, Heads, SuccessMeansWritten, Starting, Closing
<1> QED BY <1>4, <1>5 DEF Grow, Goto

LEMMA WrittenSkipFill == ASSUME WrittenInv, OpenInv', SkipFill PROVE WrittenInv'
<1>1. pc = "start" /\ program = "expand" /\ job.from = job.end /\ pc' = "backup"
      /\ UNCHANGED <<program, device, disk, host, job, status, progress, thread, used>>
  BY DEF SkipFill, Goto
<1>2. Bounds' BY <1>1 DEF WrittenInv, Bounds, Usage, progress, thread
<1>3. Span' BY <1>1 DEF WrittenInv, Span
<1>4. Thread' BY <1>1 DEF WrittenInv, Thread, Filling, thread
<1>5. Outcome'
  <2>1. job.from \in Nat BY DEF WrittenInv, OpenInv, Types, Jobs
  <2>2. Confirmed' = {} BY <1>1, <2>1 DEF Confirmed
  <2> QED BY <1>1, <2>2 DEF WrittenInv, Outcome, Starting, Closing
<1> QED BY <1>1, <1>2, <1>3, <1>4, <1>5 DEF WrittenInv, Progress, Heads, SuccessMeansWritten

LEMMA WrittenStart == ASSUME WrittenInv, OpenInv', StartFormatWriteThread PROVE WrittenInv'
<1>1. pc = "start" /\ UNCHANGED <<program, device, disk, job>> BY DEF StartFormatWriteThread
<1>2. CASE device /\ CanFail /\ CountFailure /\ Fail /\ UNCHANGED <<thread, progress>>
  BY <1>1, <1>2, Failed DEF Filling
<1>3. CASE /\ Goto("fill") /\ nSecNo' = job.from /\ place' = job.from
           /\ IF device
                THEN /\ writer' = "loop" /\ running' = TRUE /\ exitRequested' = FALSE
                     /\ empty' = TRUE /\ full' = FALSE /\ result' = "ok"
                     /\ UNCHANGED request
                ELSE UNCHANGED thread
           /\ UNCHANGED <<host, status, used>>
  <2>1. pc' = "fill" /\ UNCHANGED <<request, host, status, used>> BY <1>3 DEF Goto, thread
  <2>2. job.from \in Nat /\ job.from <= MaxSize BY DEF WrittenInv, OpenInv, Types, Jobs, Bounds
  <2>3. Bounds' BY <1>1, <1>3, <2>1, <2>2 DEF WrittenInv, Bounds, Usage, thread
  <2>4. Span' BY <1>1, <2>1 DEF WrittenInv, Span
  <2>5. Thread'
    <3>1. CASE device BY <1>1, <1>3, <2>1, <3>1 DEF Thread, Handshake, Filling
    <3>2. CASE ~device BY <1>1, <1>3, <2>1, <3>2 DEF WrittenInv, Thread, Filling, thread
    <3> QED BY <3>1, <3>2
  <2>6. Progress'
    <3>1. WrittenTo(job.from)' BY <1>1, <2>2 DEF WrittenTo
    <3>2. job.from <= job.end BY <1>1 DEF WrittenInv, Span
    <3> QED BY <1>1, <1>3, <2>1, <2>2, <3>1, <3>2 DEF Progress
  <2> QED BY <1>1, <2>1, <2>3, <2>4, <2>5, <2>6
      DEF WrittenInv, Outcome, Heads, SuccessMeansWritten, Starting, Closing
<1> QED BY <1>2, <1>3 DEF StartFormatWriteThread

LEMMA WrittenEndFill == ASSUME WrittenInv, OpenInv', EndFill PROVE WrittenInv'
<1>1. pc = "fill" /\ pc' = "stop" /\ UNCHANGED <<program, device, disk, host, job, progress, thread, used>>
      /\ ((nSecNo = job.end /\ UNCHANGED status) \/ status' = "failed")
  BY DEF EndFill, Goto
<1>2. Bounds' BY <1>1 DEF WrittenInv, Bounds, Usage, progress, thread
<1>3. Span' BY <1>1 DEF WrittenInv, Span
<1>4. Thread' BY <1>1 DEF WrittenInv, Thread, Handshake, Filling, thread
<1>5. Progress' BY <1>1 DEF WrittenInv, Progress, HandedOver, WrittenTo, progress, thread
<1>6. Outcome' BY <1>1 DEF WrittenInv, Outcome, Starting, Closing, progress
<1> QED BY <1>1, <1>2, <1>3, <1>4, <1>5, <1>6 DEF WrittenInv, Heads, SuccessMeansWritten

LEMMA NextRequestFits ==
  ASSUME WrittenInv, pc = "fill", nSecNo < job.end
  PROVE  /\ NextRequest.from = nSecNo /\ NextRequest.count \in Nat \ {0}
         /\ NextRequest.count <= BufferSize /\ nSecNo + NextRequest.count <= job.end
         /\ nSecNo \in Nat /\ job.from \in Nat /\ job.end \in Nat /\ place \in Nat
         /\ job.end <= MaxSize /\ NextRequest \in [from : Nat, count : Nat]
<1>1. nSecNo \in Nat /\ job.from \in Nat /\ job.end \in Nat /\ place \in Nat /\ BufferSize \in Nat \ {0}
  BY SizesAssumption DEF WrittenInv, OpenInv, Types, Jobs
<1>2. job.end <= MaxSize BY DEF WrittenInv, Bounds
<1> QED BY <1>1, <1>2 DEF NextRequest

LEMMA WrittenFlushToThread == ASSUME WrittenInv, OpenInv', FlushToThread PROVE WrittenInv'
<1>1. /\ pc = "fill" /\ nSecNo < job.end /\ running /\ empty
      /\ UNCHANGED <<program, device, disk, host, job, place, writer, running, exitRequested, result, used>>
  BY DEF FlushToThread
<1>2. device BY <1>1 DEF WrittenInv, Thread
<1>3. Span' BY <1>1 DEF WrittenInv, Span, FlushToThread, Goto
<1>4. CASE result # "ok"
  <2>1. status' = "failed" /\ pc' = "stop" /\ UNCHANGED <<request, nSecNo, full, empty>>
    BY <1>4 DEF FlushToThread, Goto
  <2>2. Bounds' BY <1>1, <2>1 DEF WrittenInv, Bounds, Usage
  <2>3. Thread' BY <1>1, <2>1 DEF WrittenInv, Thread, Handshake, Filling
  <2>4. Progress' BY <1>1, <2>1 DEF WrittenInv, Progress, HandedOver, WrittenTo
  <2> QED BY <1>1, <1>3, <2>1, <2>2, <2>3, <2>4
      DEF WrittenInv, Outcome, Heads, SuccessMeansWritten, Starting, Closing
<1>5. CASE result = "ok"
  <2>1. /\ request' = NextRequest /\ nSecNo' = nSecNo + NextRequest.count
        /\ full' = TRUE /\ empty' = FALSE /\ UNCHANGED <<pc, status>>
    BY <1>5 DEF FlushToThread
  <2>2. /\ request'.from = nSecNo /\ request'.count = NextRequest.count
        /\ NextRequest.count \in Nat \ {0} /\ NextRequest.count <= BufferSize
        /\ nSecNo' <= job.end /\ job.end <= MaxSize /\ nSecNo' \in Nat
        /\ nSecNo \in Nat /\ job.from \in Nat /\ job.end \in Nat /\ MaxSize \in Nat
    BY <1>1, <2>1, NextRequestFits, SizeBounds
  <2>10. Usage' BY <1>1 DEF WrittenInv, Bounds, Usage
  <2>11. empty' \in BOOLEAN /\ full' \in BOOLEAN BY <2>1
  <2>12. request'.count <= BufferSize /\ request'.from <= MaxSize /\ nSecNo' <= MaxSize
    <3>1. nSecNo <= job.end /\ job.end <= MaxSize BY <1>1, <2>2
    <3> QED BY <2>2, <3>1
  <2>3. Bounds'
    <3> QED BY <1>1, <2>1, <2>10, <2>11, <2>12 DEF WrittenInv, Bounds
  <2>4. Thread' BY <1>1, <1>2, <1>5, <2>1 DEF WrittenInv, Thread, Handshake, Filling
  <2>5. place = nSecNo /\ job.from <= nSecNo /\ WrittenTo(nSecNo)
    <3>1. CASE nSecNo = job.from BY <1>1, <1>2, <2>2, <3>1 DEF WrittenInv, Progress, WrittenTo
    <3>2. CASE nSecNo # job.from BY <1>1, <1>2, <1>5, <2>2, <3>2 DEF WrittenInv, Progress, HandedOver
    <3> QED BY <3>1, <3>2
  <2>6. Progress'
    <3>1. WrittenTo(request.from)' BY <1>1, <2>2, <2>5 DEF WrittenTo
    <3>2. HandedOver' BY <1>1, <2>1, <2>2, <2>5, <3>1 DEF HandedOver
    <3> QED BY <1>1, <1>2, <2>1, <2>2, <2>5, <3>2 DEF Progress
  <2> QED BY <1>1, <1>3, <2>1, <2>3, <2>4, <2>6
      DEF WrittenInv, Outcome, Heads, SuccessMeansWritten, Starting, Closing
<1> QED BY <1>4, <1>5

\* A write of data that is in its place, and what of the data was written before.
LEMMA WriteInPlace ==
  ASSUME WrittenInv, NEW r \in [from : Nat, count : Nat], r.from = place, WriteData(r),
         1 <= job.from, job.from <= place, place + r.count <= MaxSize
  PROVE  /\ UNCHANGED used \/ (CanFail /\ CountFailure)
         /\ \A u \in Units : u < place => disk'[u] = disk[u]
         /\ used' = used => place' = place + r.count
                            /\ \A u \in place .. place + r.count - 1 : disk'[u] = Random
         /\ used' # used => place' = place
<1>1. disk \in [Units -> Contents] /\ place \in Nat BY DEF WrittenInv, OpenInv, Types
<1>2. \A u \in Units : u < place => Written(r)[u] = disk[u] BY <1>1, WrittenKeeps
<1>3. \A u \in place .. place + r.count - 1 : Written(r)[u] = Random
  <2>1. \A u \in place .. place + r.count - 1 : u \in Units BY <1>1, SizeBounds DEF Units
  <2> QED BY <2>1 DEF Written
<1>4. CanFail /\ CountFailure => used' # used
  BY SizesAssumption DEF CanFail, CountFailure, WrittenInv, Bounds, Usage
<1> QED BY <1>1, <1>2, <1>3, <1>4 DEF WriteData

\* The units that were written and lie before a place stay.
LEMMA WrittenStays ==
  ASSUME WrittenInv, NEW n \in Nat, n <= MaxSize, WrittenTo(n), UNCHANGED job,
         \A u \in Units : u < n => disk'[u] = disk[u]
  PROVE  \A u \in job.from .. n - 1 : disk'[u] = Random
<1>1. job.from \in Nat BY DEF WrittenInv, OpenInv, Types, Jobs
<1>2. \A u \in job.from .. n - 1 : u \in Units /\ u < n BY <1>1, SizeBounds DEF Units
<1> QED BY <1>2 DEF WrittenTo

LEMMA Spliced ==
  ASSUME NEW a \in Nat, NEW m \in Nat, NEW n \in Nat,
         \A u \in a .. m - 1 : disk'[u] = Random, \A u \in m .. n - 1 : disk'[u] = Random
  PROVE  \A u \in a .. n - 1 : disk'[u] = Random
<1>1. \A u \in a .. n - 1 : u \in a .. m - 1 \/ u \in m .. n - 1 OBVIOUS
<1> QED BY <1>1

LEMMA WrittenFlushDirectly == ASSUME WrittenInv, OpenInv', FlushDirectly PROVE WrittenInv'
<1>1. /\ pc = "fill" /\ nSecNo < job.end /\ ~running /\ WriteData(NextRequest)
      /\ UNCHANGED <<program, device, host, job, thread>>
      /\ IF used' = used
           THEN nSecNo' = nSecNo + NextRequest.count /\ UNCHANGED <<pc, status>>
           ELSE status' = "failed" /\ pc' = "stop" /\ UNCHANGED nSecNo
  BY DEF FlushDirectly, Goto
<1>2. ~device /\ place = nSecNo /\ WrittenTo(nSecNo) /\ job.from <= nSecNo /\ 1 <= job.from
  BY <1>1 DEF WrittenInv, Thread, Progress, Span
<1>3. /\ NextRequest.from = nSecNo /\ NextRequest.count \in Nat \ {0}
      /\ nSecNo + NextRequest.count <= job.end /\ job.end <= MaxSize
      /\ nSecNo \in Nat /\ job.from \in Nat /\ job.end \in Nat /\ MaxSize \in Nat
      /\ NextRequest \in [from : Nat, count : Nat]
  BY <1>1, NextRequestFits, SizeBounds
<1>4. /\ UNCHANGED used \/ (CanFail /\ CountFailure)
      /\ \A u \in Units : u < nSecNo => disk'[u] = disk[u]
      /\ used' = used => place' = nSecNo + NextRequest.count
                         /\ \A u \in nSecNo .. nSecNo + NextRequest.count - 1 : disk'[u] = Random
      /\ used' # used => place' = nSecNo
  BY <1>1, <1>2, <1>3, WriteInPlace
<1>5. \A u \in job.from .. nSecNo - 1 : disk'[u] = Random BY <1>1, <1>2, <1>3, <1>4, WrittenStays
<1>6. nSecNo' \in Nat /\ nSecNo <= nSecNo' /\ nSecNo' <= job.end /\ place' = nSecNo'
  BY <1>1, <1>3, <1>4
<1>7. WrittenTo(nSecNo)'
  <2>1. CASE used' = used
    <3>1. nSecNo' = nSecNo + NextRequest.count BY <1>1, <2>1
    <3>2. \A u \in nSecNo .. nSecNo' - 1 : disk'[u] = Random BY <1>3, <1>4, <2>1, <3>1
    <3>3. \A u \in job.from .. nSecNo' - 1 : disk'[u] = Random
      <4>1. job.from \in Nat /\ nSecNo \in Nat /\ nSecNo' \in Nat BY <1>3, <1>6
      <4> QED BY <1>5, <3>2, <4>1, Spliced
    <3> QED BY <1>1, <3>3 DEF WrittenTo
  <2>2. CASE used' # used
    <3>1. nSecNo' = nSecNo BY <1>1, <2>2
    <3> QED BY <1>1, <1>5, <3>1 DEF WrittenTo
  <2> QED BY <2>1, <2>2
<1>8. pc' \in {"fill", "stop"} BY <1>1
<1>9. Bounds'
  <2>1. Usage' BY <1>4, FailureBounded DEF WrittenInv
  <2>2. nSecNo' <= MaxSize /\ place' <= MaxSize BY <1>3, <1>6
  <2>3. status' \in {"none", "ok", "warned", "failed"} BY <1>1 DEF WrittenInv, Bounds
  <2> QED BY <1>1, <2>1, <2>2, <2>3 DEF WrittenInv, Bounds, thread
<1>10. Span' BY <1>1, <1>8 DEF WrittenInv, Span
<1>11. Thread' BY <1>1, <1>2, <1>8 DEF WrittenInv, Thread, Filling, thread
<1>12. Progress'
  <2>1. job.from <= nSecNo' BY <1>2, <1>3, <1>6
  <2> QED BY <1>1, <1>2, <1>6, <1>7, <2>1 DEF Progress
<1>13. Outcome' BY <1>1 DEF WrittenInv, Outcome, Starting, Closing
<1>14. Heads'
  <2>1. 0 \in Units /\ 0 < nSecNo BY <1>2, <1>3, Ends
  <2>2. disk'[0] = disk[0] BY <1>4, <2>1
  <2> QED BY <1>1, <1>8, <2>2 DEF WrittenInv, Heads
<1> QED BY <1>8, <1>9, <1>10, <1>11, <1>12, <1>13, <1>14 DEF WrittenInv, SuccessMeansWritten

LEMMA WrittenWriterLoops == ASSUME WrittenInv, OpenInv', WriterLoops PROVE WrittenInv'
<1>1. /\ writer = "loop" /\ running' = ~exitRequested
      /\ writer' = IF exitRequested THEN "ended" ELSE "wait"
      /\ UNCHANGED <<program, device, disk, host, job, pc, status, nSecNo, place, exitRequested, empty,
                     full, request, result, used>>
  BY DEF WriterLoops, progress
<1>2. Bounds' BY <1>1 DEF WrittenInv, Bounds, Usage
<1>3. Span' BY <1>1 DEF WrittenInv, Span
<1>4. Thread'
  <2>1. device BY <1>1 DEF WrittenInv, Thread
  <2>2. CASE exitRequested
    <3>1. pc \notin {"fill", "stop"} BY <2>1, <2>2 DEF WrittenInv, Thread
    <3>2. writer' = "ended" BY <1>1, <2>2
    <3> QED BY <1>1, <2>1, <3>1, <3>2 DEF WrittenInv, Thread
  <2>3. CASE ~exitRequested
    <3>1. pc # "join" BY <2>3 DEF WrittenInv, Thread
    <3>2. writer' = "wait" BY <1>1, <2>3
    <3>3. running' BY <1>1, <2>3, Zenon
    <3> QED BY <1>1, <2>1, <2>3, <3>1, <3>2, <3>3 DEF WrittenInv, Thread, Handshake, Filling
  <2> QED BY <2>2, <2>3
<1>5. Progress' BY <1>1 DEF WrittenInv, Progress, HandedOver, WrittenTo
<1>6. Outcome' BY <1>1 DEF WrittenInv, Outcome, Confirmed
<1> QED BY <1>1, <1>2, <1>3, <1>4, <1>5, <1>6 DEF WrittenInv, Heads, SuccessMeansWritten, Confirmed

LEMMA WrittenWriterWakes == ASSUME WrittenInv, OpenInv', WriterWakes PROVE WrittenInv'
<1>1. /\ writer = "wait" /\ full /\ full' = FALSE /\ running' = ~exitRequested
      /\ writer' = IF exitRequested THEN "ended" ELSE "write"
      /\ UNCHANGED <<program, device, disk, host, job, pc, status, nSecNo, place, exitRequested, empty,
                     request, result, used>>
  BY DEF WriterWakes, progress
<1>2. Bounds'
  <2>1. full' \in BOOLEAN BY <1>1
  <2> QED BY <1>1, <2>1 DEF WrittenInv, Bounds, Usage
<1>3. Span' BY <1>1 DEF WrittenInv, Span
<1>4. Thread'
  <2>1. device BY <1>1 DEF WrittenInv, Thread
  <2>2. CASE exitRequested
    <3>1. pc \notin {"fill", "stop"} BY <2>1, <2>2 DEF WrittenInv, Thread
    <3>2. writer' = "ended" BY <1>1, <2>2
    <3> QED BY <1>1, <2>1, <3>1, <3>2 DEF WrittenInv, Thread
  <2>3. CASE ~exitRequested
    <3>1. pc # "join" BY <2>3 DEF WrittenInv, Thread
    <3>2. writer' = "write" BY <1>1, <2>3
    <3>3. running' BY <1>1, <2>3, Zenon
    <3> QED BY <1>1, <2>1, <2>3, <3>1, <3>2, <3>3 DEF WrittenInv, Thread, Handshake, Filling
  <2> QED BY <2>2, <2>3
<1>5. Progress' BY <1>1 DEF WrittenInv, Progress, HandedOver, WrittenTo
<1>6. Outcome' BY <1>1 DEF WrittenInv, Outcome, Confirmed
<1> QED BY <1>1, <1>2, <1>3, <1>4, <1>5, <1>6 DEF WrittenInv, Heads, SuccessMeansWritten, Confirmed

LEMMA WrittenWriterWrites == ASSUME WrittenInv, OpenInv', WriterWrites PROVE WrittenInv'
<1>1. /\ writer = "write" /\ WriteData(request) /\ empty' = TRUE /\ writer' = "loop"
      /\ result' = IF used' = used THEN "ok" ELSE "failed"
      /\ UNCHANGED <<program, device, host, job, pc, status, nSecNo, running, exitRequested, full, request>>
  BY DEF WriterWrites
<1>2. device /\ pc \in {"fill", "stop"} /\ ~empty /\ ~full
  BY <1>1 DEF WrittenInv, Thread, Handshake, Filling
<1>3. /\ nSecNo # job.from /\ job.from <= request.from /\ request.from + request.count = nSecNo
      /\ WrittenTo(request.from) /\ place = request.from /\ job.from <= nSecNo /\ nSecNo <= job.end
      /\ 1 <= job.from
  BY <1>2 DEF WrittenInv, Progress, HandedOver, Span
<1>4. /\ request \in [from : Nat, count : Nat] /\ job.end <= MaxSize /\ MaxSize \in Nat
      /\ job.from \in Nat /\ job.end \in Nat /\ nSecNo \in Nat /\ place \in Nat
  BY SizeBounds DEF WrittenInv, OpenInv, Types, Jobs, Bounds
<1>5. place + request.count <= MaxSize BY <1>3, <1>4
<1>6. /\ UNCHANGED used \/ (CanFail /\ CountFailure)
      /\ \A u \in Units : u < place => disk'[u] = disk[u]
      /\ used' = used => place' = place + request.count
                         /\ \A u \in place .. place + request.count - 1 : disk'[u] = Random
      /\ used' # used => place' = place
  BY <1>1, <1>3, <1>4, <1>5, WriteInPlace
<1>7. \A u \in job.from .. place - 1 : disk'[u] = Random
  <2>1. place <= MaxSize BY <1>4, <1>5
  <2>2. WrittenTo(place) BY <1>3
  <2> QED BY <1>1, <1>4, <1>6, <2>1, <2>2, WrittenStays
<1>8. place' <= MaxSize BY <1>4, <1>5, <1>6
<1>9. Bounds'
  <2>1. Usage' BY <1>6, FailureBounded DEF WrittenInv
  <2>2. result' \in {"ok", "failed"} /\ empty' \in BOOLEAN BY <1>1
  <2> QED BY <1>1, <1>8, <2>1, <2>2 DEF WrittenInv, Bounds
<1>10. Span' BY <1>1 DEF WrittenInv, Span
<1>11. Thread' BY <1>1, <1>2 DEF WrittenInv, Thread, Handshake, Filling
<1>12. HandedOver'
  <2>1. WrittenTo(request.from)' BY <1>1, <1>3, <1>7 DEF WrittenTo
  <2>2. ASSUME used' = used PROVE place' = nSecNo /\ WrittenTo(nSecNo)'
    <3>1. \A u \in place .. nSecNo - 1 : disk'[u] = Random BY <1>3, <1>4, <1>6, <2>2
    <3>2. \A u \in job.from .. nSecNo - 1 : disk'[u] = Random BY <1>4, <1>7, <3>1, Spliced
    <3>3. place' = nSecNo BY <1>3, <1>6, <2>2
    <3> QED BY <1>1, <3>2, <3>3 DEF WrittenTo
  <2> QED BY <1>1, <1>3, <2>1, <2>2 DEF HandedOver
<1>13. Progress' BY <1>1, <1>2, <1>3, <1>12 DEF Progress
<1>14. Outcome' BY <1>1, <1>2 DEF WrittenInv, Outcome, Starting, Closing
<1>15. Heads'
  <2>1. 0 \in Units /\ 0 < place BY <1>3, <1>4, Ends
  <2>2. disk'[0] = disk[0] BY <1>6, <2>1
  <2> QED BY <1>1, <1>2, <2>2 DEF WrittenInv, Heads
<1> QED BY <1>1, <1>2, <1>9, <1>10, <1>11, <1>13, <1>14, <1>15 DEF WrittenInv, SuccessMeansWritten

LEMMA WrittenStop == ASSUME WrittenInv, OpenInv', Stop PROVE WrittenInv'
<1>1. /\ pc = "stop"
      /\ UNCHANGED <<program, device, disk, host, job, status, nSecNo, place, writer, running, request, result, used>>
      /\ \/ ~device /\ pc' = "filled" /\ UNCHANGED <<empty, exitRequested, full>>
         \/ device /\ empty /\ empty' = FALSE /\ exitRequested' = TRUE /\ full' = TRUE /\ pc' = "join"
  BY DEF Stop, Goto, progress, WrittenInv, Thread, OpenInv, Types
<1>2. Bounds'
  <2>1. empty' \in BOOLEAN /\ full' \in BOOLEAN BY <1>1 DEF WrittenInv, Bounds
  <2> QED BY <1>1, <2>1 DEF WrittenInv, Bounds, Usage
<1>3. Span' BY <1>1 DEF WrittenInv, Span
<1>4. Thread' BY <1>1 DEF WrittenInv, Thread, Handshake, Filling
<1>5. Outcome'
  <2>1. ASSUME status = "ok" PROVE \A u \in Confirmed : disk[u] = Random
    <3>1. nSecNo = job.end BY <1>1, <2>1 DEF WrittenInv, Outcome
    <3>2. /\ ~device => WrittenTo(nSecNo)
          /\ device /\ nSecNo # job.from => WrittenTo(request.from)
      BY <1>1 DEF WrittenInv, Progress, HandedOver
    <3>3. job.from \in Nat /\ job.end \in Nat BY DEF WrittenInv, OpenInv, Types, Jobs
    <3>4. CASE ~device BY <3>1, <3>2, <3>4 DEF Confirmed, WrittenTo
    <3>5. CASE device /\ job.end > job.from BY <3>1, <3>2, <3>3, <3>5 DEF Confirmed, WrittenTo
    <3>6. CASE device /\ ~(job.end > job.from)
      <4>1. Confirmed = {} BY <3>3, <3>6 DEF Confirmed
      <4> QED BY <4>1
    <3> QED BY <3>4, <3>5, <3>6 DEF WrittenInv, OpenInv, Types
  <2>2. Confirmed' = Confirmed BY <1>1 DEF Confirmed
  <2> QED BY <1>1, <2>1, <2>2 DEF WrittenInv, Outcome, Starting, Closing
<1> QED BY <1>1, <1>2, <1>3, <1>4, <1>5 DEF WrittenInv, Progress, Heads, SuccessMeansWritten

LEMMA WrittenJoin == ASSUME WrittenInv, OpenInv', Join PROVE WrittenInv'
<1>1. /\ pc = "join" /\ writer = "ended" /\ writer' = "none" /\ pc' = "filled"
      /\ UNCHANGED <<program, device, disk, host, job, status, nSecNo, place, running, exitRequested,
                     empty, full, request, result, used>>
  BY DEF Join, Goto, progress
<1>2. Bounds' BY <1>1 DEF WrittenInv, Bounds, Usage
<1>3. Span' BY <1>1 DEF WrittenInv, Span
<1>4. Thread' BY <1>1 DEF WrittenInv, Thread
<1>5. Outcome' BY <1>1 DEF WrittenInv, Outcome, Starting, Closing, Confirmed
<1> QED BY <1>1, <1>2, <1>3, <1>4, <1>5 DEF WrittenInv, Progress, Heads, SuccessMeansWritten

LEMMA WrittenFilled == ASSUME WrittenInv, OpenInv', Filled PROVE WrittenInv'
<1>1. pc = "filled" /\ writer = "none" /\ UNCHANGED <<program, device, job, progress, thread>>
  BY DEF Filled, WrittenInv, Thread, Filling
<1>2. CASE status = "ok" /\ Goto("backup") /\ UNCHANGED <<disk, host, status, used>>
  <2>1. pc' = "backup" BY <1>2 DEF Goto
  <2>2. Bounds' BY <1>1, <1>2, <2>1 DEF WrittenInv, Bounds, Usage, progress, thread
  <2>3. Span' BY <1>1, <2>1 DEF WrittenInv, Span
  <2>4. Thread' BY <1>1, <2>1 DEF WrittenInv, Thread, thread
  <2>5. Outcome' BY <1>1, <1>2, <2>1 DEF WrittenInv, Outcome, Starting, Closing, Confirmed, thread
  <2> QED BY <1>1, <1>2, <2>1, <2>2, <2>3, <2>4, <2>5 DEF WrittenInv, Progress, Heads, SuccessMeansWritten
<1>3. CASE status = "failed" /\ program = "format" /\ Fail /\ UNCHANGED <<disk, used>>
  BY <1>1, <1>3, Failed DEF Filling
<1>4. CASE status = "failed" /\ pc' = "idle" /\ UNCHANGED status /\ (UNCHANGED used \/ (CanFail /\ CountFailure))
  <2>1. Bounds'
    <3>1. Usage' BY <1>4, FailureBounded DEF WrittenInv
    <3> QED BY <1>1, <1>4, <3>1 DEF WrittenInv, Bounds, progress, thread
  <2> QED BY <1>1, <1>4, <2>1 DEF WrittenInv, Span, Thread, Progress, Outcome, Heads, SuccessMeansWritten,
        Filling, Starting, Closing, thread
<1> QED BY <1>2, <1>3, <1>4 DEF Filled, Goto

\* A header written in its place.
LEMMA HeaderThere ==
  ASSUME WrittenInv, NEW v \in Units, HeaderDone(v)
  PROVE  /\ UNCHANGED used /\ disk'[v] = Header(job.target)
         /\ \A u \in Units \ {v} : disk'[u] = disk[u]
BY DEF HeaderDone, WithUnit, WrittenInv, OpenInv, Types

\* Where a job that is not idle writes headers, and what it must not touch.
LEMMA Places ==
  ASSUME WrittenInv, pc # "idle"
  PROVE  /\ 0 \in Units /\ job.target - 1 \in Units /\ job.target - 1 # 0
         /\ 0 \notin Confirmed /\ Confirmed \ {job.target - 1} \subseteq Units \ {0, job.target - 1}
<1>1. job.target \in Nat /\ job.target >= 3 /\ job.target - 1 \in Units /\ 0 \in Units /\ job.target <= MaxSize
  BY Ends, SizeBounds DEF WrittenInv, OpenInv, Types, Jobs
<1>2. job.from \in Nat /\ job.end \in Nat /\ 1 <= job.from /\ job.end <= job.target
  BY DEF WrittenInv, OpenInv, Types, Jobs, Span
<1>3. request.from \in Nat /\ request.from <= MaxSize /\ MaxSize \in Nat
  BY SizeBounds DEF WrittenInv, OpenInv, Types, Bounds
<1> DEFINE n == IF device /\ job.end > job.from THEN request.from ELSE job.end
<1>4. Confirmed = job.from .. n - 1 BY DEF Confirmed
<1>5. n \in Nat /\ n <= MaxSize BY <1>1, <1>2, <1>3
<1> HIDE DEF n
<1>6. \A u \in Confirmed : u \in Units /\ u # 0 BY <1>2, <1>3, <1>4, <1>5 DEF Units
<1> QED BY <1>1, <1>6

LEMMA WrittenBackupHeader == ASSUME WrittenInv, OpenInv', BackupHeader PROVE WrittenInv'
<1>1. pc = "backup" /\ writer = "none" /\ status = "ok"
      /\ UNCHANGED <<program, device, job, progress, thread>>
  BY DEF BackupHeader, WrittenInv, Thread, Outcome, Filling, Closing
<1>2. CASE HeaderFails(job.target - 1) /\ Fail BY <1>1, <1>2, Failed DEF HeaderFails, Filling
<1>3. CASE /\ HeaderDone(job.target - 1)
           /\ Goto(IF program = "format" THEN "idle" ELSE "primary")
           /\ UNCHANGED <<host, status>>
  <2>1. pc' \in {"idle", "primary"} /\ (pc' = "idle" <=> program = "format") BY <1>3 DEF Goto
  <2>2. job.target - 1 \in Units /\ job.target - 1 # 0 /\ 0 \in Units BY <1>1, Places
  <2>3. /\ UNCHANGED used /\ disk'[job.target - 1] = Header(job.target)
        /\ \A u \in Units \ {job.target - 1} : disk'[u] = disk[u]
    BY <1>3, <2>2, HeaderThere
  <2>4. \A u \in Confirmed \ {job.target - 1} : disk'[u] = Random
    BY <1>1, <2>3, Places DEF WrittenInv, Outcome, Closing
  <2>5. Confirmed' = Confirmed BY <1>1 DEF Confirmed, thread
  <2>6. program = "format" => disk'[0] = Header(job.target) BY <1>1, <2>2, <2>3 DEF WrittenInv, Heads
  <2>7. Bounds' BY <1>1, <1>3, <2>1, <2>3 DEF WrittenInv, Bounds, Usage, progress, thread
  <2>8. Span' BY <1>1, <2>1 DEF WrittenInv, Span
  <2>9. Thread' BY <1>1, <2>1 DEF WrittenInv, Thread, thread
  <2>10. Outcome' BY <1>1, <1>3, <2>1, <2>4, <2>5 DEF Outcome, Starting, Closing
  <2>11. Heads' BY <1>1, <2>1, <2>3, <2>6 DEF Heads
  <2>12. SuccessMeansWritten' BY <1>1, <1>3, <2>1, <2>3, <2>4, <2>5, <2>6 DEF SuccessMeansWritten
  <2> QED BY <2>1, <2>7, <2>8, <2>9, <2>10, <2>11, <2>12 DEF WrittenInv, Progress
<1> QED BY <1>2, <1>3 DEF BackupHeader

LEMMA WrittenPrimaryHeader == ASSUME WrittenInv, OpenInv', PrimaryHeader PROVE WrittenInv'
<1>1. pc = "primary" /\ writer = "none" /\ status = "ok"
      /\ UNCHANGED <<program, device, job, progress, thread>>
  BY DEF PrimaryHeader, WrittenInv, Thread, Outcome, Filling, Closing
<1>2. CASE HeaderFails(0) /\ Fail BY <1>1, <1>2, Failed DEF HeaderFails, Filling
<1>3. CASE HeaderDone(0) /\ Goto("wipe") /\ UNCHANGED <<host, status>>
  <2>1. pc' = "wipe" BY <1>3 DEF Goto
  <2>2. job.target - 1 \in Units /\ job.target - 1 # 0 /\ 0 \in Units BY <1>1, Places
  <2>3. /\ UNCHANGED used /\ disk'[0] = Header(job.target)
        /\ \A u \in Units \ {0} : disk'[u] = disk[u]
    BY <1>3, <2>2, HeaderThere
  <2>4. \A u \in Confirmed \ {job.target - 1} : disk'[u] = Random
    BY <1>1, <2>3, Places DEF WrittenInv, Outcome, Closing
  <2>5. Confirmed' = Confirmed BY <1>1 DEF Confirmed, thread
  <2>6. Bounds' BY <1>1, <1>3, <2>1, <2>3 DEF WrittenInv, Bounds, Usage, progress, thread
  <2>7. Span' BY <1>1, <2>1 DEF WrittenInv, Span
  <2>8. Thread' BY <1>1, <2>1 DEF WrittenInv, Thread, thread
  <2>9. Outcome' BY <1>1, <1>3, <2>1, <2>4, <2>5 DEF Outcome, Starting, Closing
  <2>10. Heads' BY <1>1, <2>1, <2>2, <2>3 DEF WrittenInv, Heads, Span
  <2> QED BY <2>1, <2>6, <2>7, <2>8, <2>9, <2>10 DEF WrittenInv, Progress, SuccessMeansWritten
<1> QED BY <1>2, <1>3 DEF PrimaryHeader

LEMMA WrittenWipe == ASSUME WrittenInv, OpenInv', WipeOldBackupHeader PROVE WrittenInv'
<1>1. /\ pc = "wipe" /\ pc' = "idle" /\ writer = "none" /\ program = "expand"
      /\ UNCHANGED <<program, device, host, job, progress, thread>>
  BY DEF WipeOldBackupHeader, Goto, WrittenInv, Thread, Span, Filling, OpenInv, Types
<1>2. \/ disk' = WithUnit(job.from - 1, Random) /\ UNCHANGED <<status, used>>
      \/ status' = "failed" /\ UNCHANGED used
      \/ disk' \in {disk, WithUnit(job.from - 1, Random)} /\ status' = "warned" /\ CanFail /\ CountFailure
  BY DEF WipeOldBackupHeader
<1>3. Bounds'
  <2>1. Usage' BY <1>2, FailureBounded DEF WrittenInv
  <2>2. status' \in {"none", "ok", "warned", "failed"} BY <1>2 DEF WrittenInv, Bounds
  <2> QED BY <1>1, <2>1, <2>2 DEF WrittenInv, Bounds, progress, thread
<1>4. Thread' BY <1>1 DEF WrittenInv, Thread, thread
<1>5. SuccessMeansWritten'
  <2> SUFFICES ASSUME status' \in {"ok", "warned"} PROVE SuccessMeansWritten' BY DEF SuccessMeansWritten
  <2>1. disk \in [Units -> Contents] BY DEF WrittenInv, OpenInv, Types
  <2>2. job.from \in Sizes /\ job.from < job.target BY <1>1 DEF WrittenInv, OpenInv, Enlargement, JobFits
  <2>3. /\ job.from \in Nat /\ job.from >= 3 /\ job.target \in Nat /\ job.from - 1 \in Units
        /\ job.from - 1 # 0 /\ job.from - 1 # job.target - 1
    BY <2>2, Ends DEF WrittenInv, OpenInv, Types, Jobs
  <2>4. disk' \in {disk, WithUnit(job.from - 1, Random)} BY <1>2
  <2>5. \A u \in Units \ {job.from - 1} : disk'[u] = disk[u] BY <2>1, <2>3, <2>4 DEF WithUnit
  <2>6. /\ 0 \in Units /\ job.target - 1 \in Units
        /\ Confirmed \ {job.target - 1} \subseteq Units
    BY <1>1, Places
  <2>7. job.from - 1 \notin Confirmed BY <2>3 DEF Confirmed
  <2>8. Confirmed' = Confirmed BY <1>1 DEF Confirmed, thread
  <2>9. disk'[0] = Header(job.target) /\ disk'[job.target - 1] = Header(job.target)
    BY <1>1, <2>3, <2>5, <2>6 DEF WrittenInv, Heads
  <2>10. \A u \in Confirmed \ {job.target - 1} : disk'[u] = Random
    <3>1. \A u \in Confirmed \ {job.target - 1} : disk[u] = Random BY <1>1 DEF WrittenInv, Outcome, Closing
    <3> QED BY <2>5, <2>6, <2>7, <3>1
  <2>11. status' = "ok" => disk'[job.from - 1].is # "header"
    <3>1. status' = "ok" => disk' = WithUnit(job.from - 1, Random) BY <1>2
    <3>2. WithUnit(job.from - 1, Random)[job.from - 1] = Random BY <2>1, <2>3 DEF WithUnit
    <3>3. Random.is # "header" BY DEF Random, Plain
    <3> QED BY <3>1, <3>2, <3>3
  <2> QED BY <1>1, <2>8, <2>9, <2>10, <2>11 DEF SuccessMeansWritten
<1> QED BY <1>1, <1>3, <1>4, <1>5 DEF WrittenInv, Span, Progress, Outcome, Heads, Starting, Closing

LEMMA WrittenProcessDies == ASSUME WrittenInv, OpenInv', ProcessDies PROVE WrittenInv'
<1>1. /\ pc' = "idle" /\ status' = "none" /\ writer' = "none" /\ running' = FALSE
      /\ empty' = FALSE /\ full' = FALSE /\ request' = NoRequest /\ result' = "ok"
      /\ UNCHANGED <<program, device, host, job, nSecNo, place>>
  BY DEF ProcessDies, Goto, progress
<1>2. Usage'
  <2>1. used.crashes < MaxCrashes /\ used' = [used EXCEPT !.crashes = @ + 1] BY DEF ProcessDies
  <2> QED BY <2>1, SizesAssumption DEF WrittenInv, Bounds, Usage
<1>3. request'.from <= MaxSize /\ request'.count <= BufferSize
  BY <1>1, SizeBounds, SizesAssumption DEF NoRequest
<1>4. empty' \in BOOLEAN /\ full' \in BOOLEAN BY <1>1
<1>5. Bounds' BY <1>1, <1>2, <1>3, <1>4 DEF WrittenInv, Bounds
<1> QED BY <1>1, <1>5 DEF WrittenInv, Span, Thread, Progress, Outcome, Heads, SuccessMeansWritten,
      Filling, Starting, Closing

LEMMA WrittenStutter == ASSUME WrittenInv, OpenInv', UNCHANGED vars PROVE WrittenInv'
<1> USE DEF vars, progress, thread
<1>1. Bounds' BY DEF WrittenInv, Bounds, Usage
<1>2. Span' BY DEF WrittenInv, Span
<1>3. Thread' BY DEF WrittenInv, Thread, Handshake
<1>4. Progress' BY DEF WrittenInv, Progress, HandedOver, WrittenTo
<1>5. Outcome' BY DEF WrittenInv, Outcome, Confirmed
<1> QED BY <1>1, <1>2, <1>3, <1>4, <1>5 DEF WrittenInv, Heads, SuccessMeansWritten, Confirmed

LEMMA WrittenInvHolds == Spec => []WrittenInv
<1>1. Init => WrittenInv BY WrittenInit
<1>2. WrittenInv /\ OpenInv' /\ [Next]_vars => WrittenInv'
  <2> SUFFICES ASSUME WrittenInv, OpenInv', [Next]_vars PROVE WrittenInv' OBVIOUS
  <2>1. CASE Job
    BY <2>1, WrittenCreateVolume, WrittenExpandVolume, WrittenPrimaryFirst, WrittenGrow, WrittenSkipFill,
       WrittenStart, WrittenEndFill, WrittenFlushToThread, WrittenFlushDirectly, WrittenStop, WrittenJoin,
       WrittenFilled, WrittenBackupHeader, WrittenPrimaryHeader, WrittenWipe DEF Job
  <2>2. CASE Writer BY <2>2, WrittenWriterLoops, WrittenWriterWakes, WrittenWriterWrites DEF Writer
  <2>3. CASE ProcessDies BY <2>3, WrittenProcessDies
  <2>4. CASE Rest BY <2>4, WrittenStutter DEF Rest
  <2>5. CASE UNCHANGED vars BY <2>5, WrittenStutter
  <2> QED BY <2>1, <2>2, <2>3, <2>4, <2>5 DEF Next
<1> QED BY <1>1, <1>2, OpenInvHolds, PTL DEF Spec

\* Every variable has its type, and what is handed over or being written lies in
\* the data area of the job, at its place and within the host.
\* (FlushFormatWriteBuffer, FormatWriteThreadProc.)
THEOREM TypesHold == Spec => []TypeOK
BY WrittenInvHolds, TypesFollow, PTL

\* A job that reports success, whatever failed and died before, has written both
\* headers and every unit it was to write, but perhaps those of the last request to
\* the thread.  (FlushFormatWriteBuffer, FormatWriteThreadProc, TCFormatVolume,
\* ExpandVolume.)
THEOREM SuccessIsWritten == Spec => []SuccessMeansWritten
<1>1. WrittenInv => SuccessMeansWritten BY DEF WrittenInv
<1> QED BY <1>1, WrittenInvHolds, PTL

=============================================================================
