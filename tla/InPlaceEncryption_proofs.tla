----------------------- MODULE InPlaceEncryption_proofs -----------------------
(***************************************************************************)
(* Theorems about the conversion in place of a partition, for any sizes of  *)
(* the file system, the header group, the chunks and the interval between   *)
(* header updates, and any number of pauses, failures and power losses.     *)
(***************************************************************************)
EXTENDS InPlaceEncryption, FiniteSetTheorems, TLAPS

(***************************************************************************)
(* Where the thread is.                                                     *)
(***************************************************************************)
Begins == {"writeBackup", "verify", "conceal", "register"}
Works == {"loop", "write", "update", "poll", "final", "pause", "finish"}

\* The length in the header, as the next thread or a restart will see it.
SavedLength == IF Opens(dev[BackupAt]) THEN dev[BackupAt].of ELSE 0

\* A conversion that will count itself in the configuration file.
Pending == IF pc \in Begins \/ (pc = "open" /\ mode = "decrypt" /\ ~resumed) THEN 1 ELSE 0

Types ==
  /\ dev \in [Positions -> Contents] /\ pc \in Labels /\ mode \in {"none", "encrypt", "decrypt"}
  /\ ui \in {"none", "preparing", "running", "paused", "error", "encrypted", "decrypted"}
  /\ result \in {"none", "ok", "paused", "error"}
  /\ resumed \in BOOLEAN /\ wipe \in BOOLEAN /\ cancel \in BOOLEAN /\ flag \in BOOLEAN
  /\ pause \in BOOLEAN /\ changed \in BOOLEAN /\ excused \in BOOLEAN
  /\ found \in [visible : BOOLEAN, uncounted : BOOLEAN]
  /\ length \in 0 .. N /\ dist \in 0 .. Interval /\ count \in Nat
  /\ used \in [starts : 0 .. MaxStarts, failures : Nat, crashes : 0 .. MaxCrashes]
  /\ losses = used.crashes /\ count + Pending <= used.starts

(***************************************************************************)
(* What the place of the thread says of its variables.                      *)
(***************************************************************************)
WholeChunks == \E k \in Nat : dist = k * ChunkSize

Control ==
  /\ pc \in Begins => mode = "encrypt"
  /\ Loaded \/ pc = "open" => mode \in {"encrypt", "decrypt"}
  /\ pc \in Begins \cup {"open"} => dist = 0 /\ ~changed
  /\ pc \in {"loop", "write", "poll"} => dist < Interval /\ (Remaining = 0 \/ WholeChunks)
  /\ pc = "write" => Remaining > 0
  /\ pc \in {"finish", "zero", "unregister"} \/ (pc = "final" /\ ~pause) => Remaining = 0
  /\ pc = "zero" => mode = "decrypt"
  /\ pc \in {"pause", "finish", "zero", "unregister"} \/ (Loaded /\ ~changed) => dist = 0
  /\ pc \in {"zero", "unregister"} /\ mode = "decrypt" => ~changed

Told ==
  ui \in {"encrypted", "decrypted"} =>
    /\ pc \in {"closing", "end", "idle"} /\ result = "ok"
    /\ pc = "idle" => mode = "none"
    /\ pc = "closing" => IF ui = "encrypted" THEN mode = "encrypt" /\ length = N ELSE ~changed

(***************************************************************************)
(* Where contents may lie, whatever was lost.                               *)
(***************************************************************************)
AtHome(p, c) ==
  /\ c.kind = "plain" => c.of = p
  /\ c.kind = "cipher" => c.of + O = p
  /\ c.kind = "header" => p \in {PrimaryAt, BackupAt}

BufferHolds ==
  IF pc = "write"
  THEN /\ buffer \in [ChunkUnits -> Contents]
       /\ \A u \in ChunkUnits :
            /\ buffer[u].kind \in {IF mode = "encrypt" THEN "cipher" ELSE "plain", "junk"}
            /\ buffer[u].kind # "junk" => buffer[u].of = u
  ELSE buffer = <<>>

Layout ==
  /\ \A p \in Positions : AtHome(p, dev[p])
  /\ BufferHolds
  /\ Opens(dev[BackupAt]) /\ ~dev[BackupAt].mark => dev[BackupAt].of = N
  /\ Opens(dev[PrimaryAt]) => SavedLength = N /\ (Loaded => length = N)
  /\ pc \in {"writeBackup", "verify", "conceal"} => Exposed
  /\ Loaded => length = IF mode = "encrypt" THEN SavedLength + dist ELSE SavedLength - dist

HeadersSaved == dev[PrimaryAt] = Header(N, TRUE) /\ \A p \in 0 .. O - 1 : dev[p].kind # "plain"
RestZeroed == \A p \in Positions : p >= N => dev[p].kind \notin {"header", "cipher"}

Finish ==
  /\ pc \in {"finish", "unregister"} /\ mode = "encrypt" => dev[BackupAt] = Header(N, TRUE)
  /\ pc = "unregister" => IF mode = "encrypt" THEN HeadersSaved ELSE RestZeroed
  /\ ui = "encrypted" => HeadersSaved /\ dev[BackupAt] = Header(N, TRUE)
  /\ ui = "decrypted" => RestZeroed

(***************************************************************************)
(* The concealing and the configuration file.                               *)
(***************************************************************************)
\* Once a unit is encrypted, unit 0 is under the pattern unless it was found
\* visible; encrypted, and back in the clear at the end, it is the other way round.
Marks ==
  /\ \A p \in Positions : dev[p].kind \in {"plain", "cipher"} /\ dev[p].mark => dev[p].of = 0
  /\ (SavedLength > 0 \/ pc \in Works \/ (Loaded /\ length > 0)) /\ dev[0].kind = "plain" =>
       (dev[0].mark <=> ~found.visible)
  /\ (SavedLength = N \/ (Loaded /\ length = N)) /\ dev[O].kind = "cipher" =>
       (dev[O].mark <=> found.visible)
  /\ pc = "write" => \A u \in ChunkUnits :
       /\ buffer[u].mark => u = 0
       /\ u = 0 /\ buffer[u].kind # "junk" =>
            (buffer[u].mark <=> IF mode = "encrypt" THEN found.visible ELSE ~found.visible)
  /\ ((pc \in {"zero", "unregister"} /\ mode = "decrypt") \/ ui = "decrypted") /\ dev[0].kind = "plain" =>
       (dev[0].mark <=> found.visible)
  /\ pc \in {"verify", "conceal"} => SavedLength = 0

Counts ==
  /\ SavedLength \in 1 .. N - 1 => count > 0
  /\ pc \in Works \cup {"zero", "unregister"} =>
       count > 0 \/ (mode = "encrypt" /\ SavedLength = N /\ length = N)
  /\ pc = "closing" =>
       count > 0 \/ (SavedLength = length /\ length = IF mode = "encrypt" THEN N ELSE 0)
  /\ pc \in {"idle", "open", "end"} /\ mode = "decrypt" /\ resumed /\ SavedLength = N => count > 0

(***************************************************************************)
(* The data, unless excused.                                                *)
(***************************************************************************)
\* The unit lies on the medium d as a header with length l says.
ReadableIn(d, u, l) ==
  LET c == IF u >= N - l THEN d[u + O] ELSE d[u]
  IN c.of = u /\ c.kind = IF u >= N - l THEN "cipher" ELSE "plain"

\* The units that a power loss may cost.
Window ==
  IF mode = "encrypt" THEN {u \in Units : N - SavedLength - (Interval - O) <= u /\ u < N - SavedLength}
                      ELSE {u \in Units : N - SavedLength <= u /\ u < N - SavedLength + (Interval - O)}

Faithful ==
  /\ pc = "writeBackup" => SavedLength = 0
  /\ pc = "write" => buffer = [u \in ChunkUnits |-> Transformed(u, dev[Source(u)])]
  /\ Loaded => \A u \in Units \ Window :
       ReadableIn(dev, u, length) => ReadableIn(dev, u, SavedLength)
  /\ losses = 0 => \A u \in Units : Readable(u)

ConversionInv ==
  /\ Types /\ Control /\ Told /\ Layout /\ Finish
  /\ Marks /\ (~found.uncounted => Counts)
  /\ ~excused => Faithful

(***************************************************************************)
(* Sizes and contents.                                                      *)
(***************************************************************************)
LEMMA Sizes ==
  /\ N \in Nat /\ O \in Nat /\ ChunkSize \in Nat /\ Interval \in Nat
  /\ N >= 1 /\ O >= 1 /\ ChunkSize >= 1 /\ Interval >= 1 /\ O <= N
  /\ MaxStarts \in Nat /\ MaxCrashes \in Nat /\ MaxFailures \in Nat
BY SizesAssumption

LEMMA IntervalIsWhole == \E m \in Nat : Interval = m * ChunkSize
<1>1. Interval % ChunkSize = 0 BY SizesAssumption
<1>2. \E q \in Int : Interval = q * ChunkSize BY <1>1, Sizes
<1>3. PICK q \in Int : Interval = q * ChunkSize BY <1>2
<1>4. q >= 0
  <2> SUFFICES ASSUME q < 0 PROVE FALSE BY Sizes
  <2>1. q * ChunkSize < 0 BY Sizes
  <2> QED BY <1>3, <2>1, Sizes
<1> QED BY <1>3, <1>4

\* After one more whole chunk the interval is reached at the latest.
LEMMA ChunkFits ==
  ASSUME WholeChunks, dist \in Nat, dist < Interval
  PROVE  dist + ChunkSize <= Interval
<1>1. PICK k \in Nat : dist = k * ChunkSize BY DEF WholeChunks
<1>2. PICK m \in Nat : Interval = m * ChunkSize BY IntervalIsWhole
<1>3. k + 1 <= m
  <2> SUFFICES ASSUME m <= k PROVE FALSE OBVIOUS
  <2>1. k - m \in Nat OBVIOUS
  <2>2. PICK j \in Nat : k = m + j
    <3>1. k = m + (k - m) OBVIOUS
    <3> QED BY <2>1, <3>1
  <2>4. k * ChunkSize = m * ChunkSize + j * ChunkSize BY <2>2, Sizes
  <2>3. j * ChunkSize >= 0 BY Sizes
  <2> QED BY <1>1, <1>2, <2>4, <2>3, Sizes
<1>4. PICK i \in Nat : m = (k + 1) + i BY <1>3
<1>5. m * ChunkSize = k * ChunkSize + ChunkSize + i * ChunkSize BY <1>4, Sizes
<1>6. i * ChunkSize >= 0 BY Sizes
<1> QED BY <1>1, <1>2, <1>5, <1>6, Sizes

LEMMA ContentsAre ==
  ASSUME NEW c \in Contents
  PROVE  /\ c.kind \in {"plain", "cipher", "header", "junk", "zeros"}
         /\ c.mark \in BOOLEAN /\ c.of \in 0 .. N
         /\ c.kind \in {"plain", "cipher"} => c.of \in Units
         /\ c.kind \in {"junk", "zeros"} => ~c.mark
         /\ c = [kind |-> c.kind, of |-> c.of, mark |-> c.mark]
<1> USE Sizes DEF Units
<1>1. CASE c \in [kind : {"plain", "cipher"}, of : Units, mark : BOOLEAN] BY <1>1
<1>2. CASE c \in [kind : {"header"}, of : 0 .. N, mark : BOOLEAN] BY <1>2
<1>3. CASE c = Junk BY <1>3 DEF Junk
<1>4. CASE c = Zeros BY <1>4 DEF Zeros
<1> QED BY <1>1, <1>2, <1>3, <1>4 DEF Contents

LEMMA Made ==
  /\ Junk \in Contents /\ Junk.kind = "junk" /\ ~Junk.mark
  /\ Zeros \in Contents /\ Zeros.kind = "zeros" /\ ~Zeros.mark
  /\ \A u \in Units : Plain(u) \in Contents /\ Plain(u).kind = "plain" /\ Plain(u).of = u /\ ~Plain(u).mark
  /\ \A u \in Units : Cipher(u) \in Contents /\ Cipher(u).kind = "cipher" /\ Cipher(u).of = u /\ ~Cipher(u).mark
  /\ \A l \in 0 .. N, f \in BOOLEAN :
       Header(l, f) \in Contents /\ Header(l, f).kind = "header" /\ Header(l, f).of = l /\ Header(l, f).mark = f
BY DEF Contents, Junk, Zeros, Plain, Cipher, Header

LEMMA IsHeader ==
  ASSUME NEW c \in Contents, NEW l, NEW f \in BOOLEAN
  PROVE  c = Header(l, f) <=> c.kind = "header" /\ c.of = l /\ c.mark = f
<1>1. c = [kind |-> c.kind, of |-> c.of, mark |-> c.mark] BY ContentsAre
<1> QED BY <1>1 DEF Header

LEMMA IsPlain ==
  ASSUME NEW c \in Contents, NEW u
  PROVE  c = Plain(u) <=> c.kind = "plain" /\ c.of = u /\ ~c.mark
<1>1. c = [kind |-> c.kind, of |-> c.of, mark |-> c.mark] /\ c.mark \in BOOLEAN BY ContentsAre
<1> QED BY <1>1 DEF Plain

LEMMA ToggleIs ==
  ASSUME NEW c \in Contents
  PROVE  /\ Toggle(c) \in Contents
         /\ c.kind \in {"plain", "cipher"} =>
              Toggle(c).kind = c.kind /\ Toggle(c).of = c.of /\ Toggle(c).mark = ~c.mark
         /\ c.kind \notin {"plain", "cipher"} => Toggle(c) = Junk
<1>1. CASE c.kind \in {"plain", "cipher"}
  <2>1. c.of \in Units /\ c.mark \in BOOLEAN /\ c = [kind |-> c.kind, of |-> c.of, mark |-> c.mark]
    BY <1>1, ContentsAre
  <2>2. Toggle(c) = [kind |-> c.kind, of |-> c.of, mark |-> ~c.mark] BY <1>1, <2>1 DEF Toggle
  <2> QED BY <1>1, <2>1, <2>2 DEF Contents
<1>2. CASE c.kind \notin {"plain", "cipher"} BY <1>2, Made DEF Toggle
<1> QED BY <1>1, <1>2

LEMMA CryptIs ==
  ASSUME NEW c \in Contents, NEW u \in Units
  PROVE  /\ Encrypt(c, u) \in Contents /\ Decrypt(c, u) \in Contents
         /\ IF c.kind = "plain" /\ c.of = u
            THEN Encrypt(c, u).kind = "cipher" /\ Encrypt(c, u).of = u /\ Encrypt(c, u).mark = c.mark
            ELSE Encrypt(c, u) = Junk
         /\ IF c.kind = "cipher" /\ c.of = u
            THEN Decrypt(c, u).kind = "plain" /\ Decrypt(c, u).of = u /\ Decrypt(c, u).mark = c.mark
            ELSE Decrypt(c, u) = Junk
<1>1. c.mark \in BOOLEAN /\ c = [kind |-> c.kind, of |-> c.of, mark |-> c.mark] BY ContentsAre
<1>2. CASE c.kind = "plain" /\ c.of = u
  <2>1. Encrypt(c, u) = [kind |-> "cipher", of |-> u, mark |-> c.mark] BY <1>1, <1>2 DEF Encrypt
  <2>2. Decrypt(c, u) = Junk BY <1>2 DEF Decrypt
  <2> QED BY <1>1, <1>2, <2>1, <2>2, Made DEF Contents
<1>3. CASE c.kind = "cipher" /\ c.of = u
  <2>1. Decrypt(c, u) = [kind |-> "plain", of |-> u, mark |-> c.mark] BY <1>1, <1>3 DEF Decrypt
  <2>2. Encrypt(c, u) = Junk BY <1>3 DEF Encrypt
  <2> QED BY <1>1, <1>3, <2>1, <2>2, Made DEF Contents
<1>4. CASE c.of # u \/ c.kind \notin {"plain", "cipher"} BY <1>4, Made DEF Encrypt, Decrypt
<1> QED BY <1>2, <1>3, <1>4

\* What the thread makes of a unit: encrypted or decrypted for its place, with
\* the concealing of unit 0 turned over.
From == IF mode = "encrypt" THEN "plain" ELSE "cipher"
Into == IF mode = "encrypt" THEN "cipher" ELSE "plain"
LEMMA TransformedIs ==
  ASSUME NEW c \in Contents, NEW u \in Units
  PROVE  /\ Transformed(u, c) \in Contents
         /\ IF c.kind = From /\ c.of = u
            THEN /\ Transformed(u, c).kind = Into /\ Transformed(u, c).of = u
                 /\ Transformed(u, c).mark = IF u = 0 THEN ~c.mark ELSE c.mark
            ELSE Transformed(u, c) = Junk
<1> DEFINE e == IF mode = "encrypt" THEN Encrypt(c, u) ELSE Decrypt(c, u)
<1>1. /\ e \in Contents
      /\ IF c.kind = From /\ c.of = u
         THEN e.kind = Into /\ e.of = u /\ e.mark = c.mark
         ELSE e = Junk
  BY CryptIs DEF From, Into
<1>2. Transformed(u, c) = IF u = 0 THEN Toggle(e) ELSE e BY DEF Transformed
<1> HIDE DEF e
<1>3. Toggle(e) \in Contents
      /\ (e.kind \in {"plain", "cipher"} => Toggle(e).kind = e.kind /\ Toggle(e).of = e.of /\ Toggle(e).mark = ~e.mark)
      /\ (e.kind \notin {"plain", "cipher"} => Toggle(e) = Junk)
  BY <1>1, ToggleIs
<1>4. Junk.kind = "junk" /\ Into \in {"plain", "cipher"} BY Made DEF Into
<1> QED BY <1>1, <1>2, <1>3, <1>4

LEMMA ReadableIs == \A u : Readable(u) <=> ReadableIn(dev, u, CurrentLength)
BY DEF Readable, ReadableIn

\* The headers stand in front of the data and behind it.
LEMMA Places ==
  /\ Units \subseteq Positions /\ PrimaryAt = 0 /\ BackupAt = N + O
  /\ 0 \in Units /\ 0 \in Positions /\ BackupAt \in Positions /\ BackupAt # 0 /\ O \in Positions /\ O # BackupAt
  /\ \A u \in Units : u \in Nat /\ u < N /\ u + O \in Positions /\ u + O < BackupAt /\ u < BackupAt
  /\ \A p : p \in Positions <=> p \in Nat /\ p < N + 2 * O
BY Sizes DEF Units, Positions, PrimaryAt, BackupAt

LEMMA SavedIs ==
  ASSUME Types
  PROVE  /\ SavedLength \in 0 .. N
         /\ \A p \in Positions : dev[p] \in Contents
         /\ Opens(dev[BackupAt]) => dev[BackupAt].of = SavedLength
         /\ SavedLength # 0 => Opens(dev[BackupAt])
         /\ CurrentLength \in 0 .. N
         /\ CurrentLength = IF Loaded THEN length ELSE SavedLength
<1>1. \A p \in Positions : dev[p] \in Contents BY DEF Types
<1>2. dev[BackupAt].of \in 0 .. N BY <1>1, Places, ContentsAre
<1>3. SavedLength \in 0 .. N BY <1>2, Sizes DEF SavedLength
<1>4. CurrentLength = IF Loaded THEN length ELSE SavedLength BY DEF CurrentLength, SavedLength
<1> QED BY <1>1, <1>3, <1>4 DEF Types, SavedLength

(***************************************************************************)
(* The chunk in hand.                                                       *)
(***************************************************************************)
LEMMA ChunkIs ==
  ASSUME Types, mode \in {"encrypt", "decrypt"}, Remaining > 0
  PROVE  /\ Chunk \in 1 .. ChunkSize /\ Chunk <= Remaining
         /\ mode = "encrypt" =>
              /\ length + Chunk <= N
              /\ ChunkUnits = N - length - Chunk .. N - length - 1
         /\ mode = "decrypt" =>
              /\ Chunk <= length
              /\ ChunkUnits = N - length .. N - length + Chunk - 1
         /\ ChunkUnits \subseteq Units
         /\ \A u \in ChunkUnits : Source(u) \in Positions /\ Target(u) \in Positions
         /\ \A u \in ChunkUnits : Source(u) < BackupAt /\ Target(u) < BackupAt
         /\ 0 \in ChunkUnits /\ mode = "decrypt" => length = N
<1>1. length \in 0 .. N BY DEF Types
<1>2. Remaining \in 1 .. N BY <1>1, Sizes DEF Remaining
<1>3. Chunk \in 1 .. ChunkSize /\ Chunk <= Remaining BY <1>2, Sizes DEF Chunk, Smaller
<1> HIDE DEF Chunk
<1>4. CASE mode = "encrypt"
  <2>1. length + Chunk <= N BY <1>1, <1>3, <1>4, Sizes DEF Remaining
  <2>2. ChunkUnits = N - length - Chunk .. N - length - 1
    <3>1. AreaStart - Chunk - O = N - length - Chunk /\ AreaStart - O - 1 = N - length - 1
      BY <1>1, <1>3, Sizes DEF AreaStart
    <3> QED BY <1>4, <3>1 DEF ChunkUnits
  <2>3. ChunkUnits \subseteq Units BY <1>1, <1>3, <2>1, <2>2, Sizes DEF Units
  <2>4. \A u \in ChunkUnits : Source(u) = u /\ Target(u) = u + O BY <1>4 DEF Source, Target
  <2> QED BY <1>3, <1>4, <2>1, <2>2, <2>3, <2>4, Places
<1>5. CASE mode = "decrypt"
  <2>1. Chunk <= length BY <1>3, <1>5 DEF Remaining
  <2>2. ChunkUnits = N - length .. N - length + Chunk - 1
    <3>1. AreaStart - O = N - length /\ AreaStart - O + Chunk - 1 = N - length + Chunk - 1
      BY <1>1, <1>3, Sizes DEF AreaStart
    <3> QED BY <1>5, <3>1 DEF ChunkUnits
  <2>3. ChunkUnits \subseteq Units BY <1>1, <1>3, <2>1, <2>2, Sizes DEF Units
  <2>4. \A u \in ChunkUnits : Source(u) = u + O /\ Target(u) = u BY <1>5 DEF Source, Target
  <2>5. 0 \in ChunkUnits => length = N BY <1>1, <2>2, Sizes
  <2> QED BY <1>3, <1>5, <2>1, <2>2, <2>3, <2>4, <2>5, Places
<1> QED BY <1>4, <1>5

LEMMA MovedIs ==
  ASSUME Types, mode \in {"encrypt", "decrypt"}, Remaining > 0
  PROVE  /\ DOMAIN Moved = {Target(u) : u \in ChunkUnits}
         /\ \A u \in ChunkUnits : Moved[Target(u)] = buffer[u]
<1>1. DOMAIN Moved = {Target(u) : u \in ChunkUnits} BY DEF Moved
<1>2. ASSUME NEW u \in ChunkUnits PROVE Moved[Target(u)] = buffer[u]
  <2>1. \A v \in ChunkUnits : v \in Int
    <3>1. ChunkUnits \subseteq Units BY ChunkIs
    <3> QED BY <3>1, Sizes DEF Units
  <2>2. \A v \in ChunkUnits : Target(v) = Target(u) => v = u BY <1>2, <2>1, Sizes DEF Target
  <2>3. (CHOOSE v \in ChunkUnits : Target(v) = Target(u)) = u BY <1>2, <2>2
  <2>4. Target(u) \in {Target(v) : v \in ChunkUnits} BY <1>2
  <2> QED BY <2>3, <2>4 DEF Moved
<1> QED BY <1>1, <1>2

LEMMA TornIs ==
  ASSUME NEW f, NEW w, NEW d \in Torn(f, w)
  PROVE  /\ d = [p \in Positions |-> d[p]]
         /\ \A p \in Positions :
              d[p] = dev[p] \/ (p \in DOMAIN f /\ (d[p] = f[p] \/ (w /\ d[p] = Junk)))
<1>1. PICK new \in SUBSET DOMAIN f, gone \in IF w THEN SUBSET DOMAIN f ELSE {{}} :
        d = [p \in Positions |-> IF p \in new THEN f[p] ELSE IF p \in gone THEN Junk ELSE dev[p]]
  BY DEF Torn
<1>2. \A p \in Positions : p \in gone => w /\ p \in DOMAIN f OBVIOUS
<1> QED BY <1>1, <1>2

\* What may lie on the medium once the write of a chunk was begun: each target
\* old, new, wiped, or put back.
Landed(d) ==
  /\ d = [p \in Positions |-> d[p]]
  /\ \A p \in Positions :
       \/ d[p] = dev[p]
       \/ \E u \in ChunkUnits :
            /\ p = Target(u)
            /\ \/ d[p] = buffer[u] \/ d[p] = Junk
               \/ mode = "encrypt" /\ p \in ChunkUnits /\ d[p] = Decrypt(buffer[p], p)

LEMMA ChunkLands ==
  ASSUME Types, mode \in {"encrypt", "decrypt"}, Remaining > 0
  PROVE  /\ Landed(Overwritten(Moved))
         /\ \A w : \A d \in Torn(Moved, w) : Landed(d) /\ (mode = "encrypt" => Landed(Undone(d)))
<1>1. /\ DOMAIN Moved = {Target(u) : u \in ChunkUnits}
      /\ \A u \in ChunkUnits : Moved[Target(u)] = buffer[u]
  BY MovedIs
<1>2. Landed(Overwritten(Moved))
  <2>1. \A p \in Positions : Overwritten(Moved)[p] = IF p \in DOMAIN Moved THEN Moved[p] ELSE dev[p]
    BY DEF Overwritten
  <2>2. Overwritten(Moved) = [p \in Positions |-> Overwritten(Moved)[p]] BY DEF Overwritten
  <2> QED BY <1>1, <2>1, <2>2 DEF Landed
<1>3. ASSUME NEW w, NEW d \in Torn(Moved, w) PROVE Landed(d) /\ (mode = "encrypt" => Landed(Undone(d)))
  <2>1. /\ d = [p \in Positions |-> d[p]]
        /\ \A p \in Positions :
             d[p] = dev[p] \/ (p \in DOMAIN Moved /\ (d[p] = Moved[p] \/ (w /\ d[p] = Junk)))
    BY <1>3, TornIs
  <2>2. Landed(d) BY <1>1, <2>1 DEF Landed
  <2>3. ASSUME mode = "encrypt" PROVE Landed(Undone(d))
    <3> DEFINE back == {u \in ChunkUnits : \E v \in ChunkUnits : Target(v) = u}
    <3>1. Undone(d) = [p \in Positions |-> IF p \in back THEN Decrypt(buffer[p], p) ELSE d[p]]
      BY DEF Undone
    <3>2. \A p \in back : p \in ChunkUnits /\ \E u \in ChunkUnits : p = Target(u) OBVIOUS
    <3> HIDE DEF back
    <3> QED BY <2>2, <2>3, <3>1, <3>2 DEF Landed
  <2> QED BY <2>2, <2>3
<1> QED BY <1>2, <1>3

\* The write of a chunk keeps contents where they may lie, and the header.
LEMMA LandedKeeps ==
  ASSUME Types, Control, Layout, pc = "write", NEW d, Landed(d)
  PROVE  /\ d \in [Positions -> Contents]
         /\ \A p \in Positions : AtHome(p, d[p])
         /\ d[BackupAt] = dev[BackupAt]
         /\ d[0] = dev[0] \/ (mode = "decrypt" /\ length = N /\ (d[0] = Junk \/ (0 \in ChunkUnits /\ d[0] = buffer[0])))
         /\ Opens(d[0]) => d[0] = dev[0]
         /\ \A p \in Positions : p \notin {Target(u) : u \in ChunkUnits} => d[p] = dev[p]
         /\ Marks => /\ \A p \in Positions : d[p].kind \in {"plain", "cipher"} /\ d[p].mark => d[p].of = 0
                     /\ d[0].kind = "plain" => (d[0].mark <=> ~found.visible)
                     /\ d[O].kind = "cipher" => d[O] = dev[O] \/ (d[O].mark <=> found.visible)
<1> DEFINE Targets == {Target(u) : u \in ChunkUnits}
<1>1. mode \in {"encrypt", "decrypt"} /\ Remaining > 0 BY DEF Control, Loaded
<1>2. /\ ChunkUnits \subseteq Units
      /\ \A u \in ChunkUnits : Target(u) \in Positions /\ Target(u) < BackupAt
      /\ 0 \in ChunkUnits /\ mode = "decrypt" => length = N
  BY <1>1, ChunkIs
<1>3. /\ \A u \in ChunkUnits :
           /\ buffer[u] \in Contents
           /\ buffer[u].kind \in {IF mode = "encrypt" THEN "cipher" ELSE "plain", "junk"}
           /\ buffer[u].kind # "junk" => buffer[u].of = u
  BY DEF Layout, BufferHolds
<1>4. \A p \in Positions : dev[p] \in Contents BY SavedIs
<1>5. \A p \in Positions : p \notin Targets => d[p] = dev[p] BY DEF Landed
<1>6. ASSUME NEW p \in Positions, mode = "encrypt", p \in ChunkUnits
      PROVE  LET c == Decrypt(buffer[p], p) IN
               /\ c \in Contents /\ c.kind \in {"plain", "junk"} /\ (c.kind = "plain" => c.of = p)
               /\ (c.kind = "plain" /\ c.mark => buffer[p].mark)
  <2>1. p \in Units /\ buffer[p] \in Contents BY <1>2, <1>3, <1>6
  <2>2. Junk.kind = "junk" BY Made
  <2> QED BY <2>1, <2>2, CryptIs
<1>7. ASSUME NEW p \in Positions
      PROVE  d[p] \in Contents /\ AtHome(p, d[p])
  <2>1. CASE d[p] = dev[p] BY <1>4, <2>1 DEF Layout
  <2>2. ASSUME NEW u \in ChunkUnits, p = Target(u), d[p] = buffer[u] PROVE d[p] \in Contents /\ AtHome(p, d[p])
    <3>1. p = IF mode = "encrypt" THEN u + O ELSE u BY <2>2 DEF Target
    <3> QED BY <1>1, <1>3, <2>2, <3>1 DEF AtHome
  <2>3. CASE d[p] = Junk BY <2>3, Made DEF AtHome
  <2>4. CASE mode = "encrypt" /\ p \in ChunkUnits /\ d[p] = Decrypt(buffer[p], p)
    BY <1>6, <2>4 DEF AtHome
  <2> QED BY <2>1, <2>2, <2>3, <2>4 DEF Landed
<1>8. d[BackupAt] = dev[BackupAt]
  <2>1. BackupAt \notin Targets BY <1>2, Places, Sizes
  <2> QED BY <1>5, <2>1, Places
<1>9. \A u \in ChunkUnits : Target(u) = 0 => mode = "decrypt" /\ u = 0
  BY <1>1, <1>2, Places, Sizes DEF Target
<1>10. d[0] = dev[0] \/ (mode = "decrypt" /\ length = N /\ (d[0] = Junk \/ (0 \in ChunkUnits /\ d[0] = buffer[0])))
  BY <1>2, <1>9, Places DEF Landed
<1>11. Opens(d[0]) => d[0] = dev[0]
  <2>1. Junk.kind # "header" BY Made
  <2>2. 0 \in ChunkUnits => buffer[0].kind # "header" BY <1>3
  <2> QED BY <1>10, <2>1, <2>2 DEF Opens
<1>12. ASSUME Marks
       PROVE  /\ \A p \in Positions : d[p].kind \in {"plain", "cipher"} /\ d[p].mark => d[p].of = 0
              /\ d[0].kind = "plain" => (d[0].mark <=> ~found.visible)
              /\ d[O].kind = "cipher" => d[O] = dev[O] \/ (d[O].mark <=> found.visible)
  <2>1. /\ \A p \in Positions : dev[p].kind \in {"plain", "cipher"} /\ dev[p].mark => dev[p].of = 0
        /\ dev[0].kind = "plain" => (dev[0].mark <=> ~found.visible)
    BY <1>12 DEF Marks, Works
  <2>2. \A u \in ChunkUnits :
          /\ buffer[u].mark => u = 0
          /\ u = 0 /\ buffer[u].kind # "junk" =>
               (buffer[u].mark <=> IF mode = "encrypt" THEN found.visible ELSE ~found.visible)
    BY <1>12 DEF Marks
  <2>3. Junk.kind = "junk" BY Made
  <2>4. ASSUME NEW p \in Positions, d[p].kind \in {"plain", "cipher"}, d[p].mark PROVE d[p].of = 0
    <3>1. CASE d[p] = dev[p] BY <2>1, <2>4, <3>1
    <3>2. ASSUME NEW u \in ChunkUnits, d[p] = buffer[u] PROVE d[p].of = 0
      <4>1. u = 0 /\ buffer[u].kind # "junk" BY <2>2, <2>4, <3>2
      <4> QED BY <1>3, <3>2, <4>1
    <3>3. CASE mode = "encrypt" /\ p \in ChunkUnits /\ d[p] = Decrypt(buffer[p], p)
      <4>1. d[p].kind = "plain" /\ d[p].of = p BY <1>6, <2>4, <3>3
      <4>2. buffer[p].mark BY <1>6, <2>4, <3>3, <4>1
      <4> QED BY <2>2, <3>3, <4>1, <4>2
    <3>4. CASE d[p] = Junk BY <2>3, <2>4, <3>4
    <3> QED BY <3>1, <3>2, <3>3, <3>4 DEF Landed
  <2>5. ASSUME d[0].kind = "plain" PROVE d[0].mark <=> ~found.visible
    <3>1. CASE d[0] = dev[0] BY <2>1, <2>5, <3>1
    <3>2. CASE d[0] = Junk BY <2>3, <2>5, <3>2
    <3>3. CASE mode = "decrypt" /\ 0 \in ChunkUnits /\ d[0] = buffer[0]
      <4>1. buffer[0].kind # "junk" BY <2>5, <3>3
      <4> QED BY <2>2, <3>3, <4>1
    <3> QED BY <1>10, <3>1, <3>2, <3>3
  <2>6. ASSUME d[O].kind = "cipher", d[O] # dev[O] PROVE d[O].mark <=> found.visible
    <3>1. O \in Positions BY Places
    <3>2. PICK u \in ChunkUnits :
            /\ O = Target(u)
            /\ \/ d[O] = buffer[u] \/ d[O] = Junk
               \/ mode = "encrypt" /\ O \in ChunkUnits /\ d[O] = Decrypt(buffer[O], O)
      BY <2>6, <3>1 DEF Landed
    <3>3. d[O] = buffer[u] BY <1>6, <2>3, <2>6, <3>1, <3>2
    <3>4. mode = "encrypt" BY <1>1, <1>3, <2>6, <3>3
    <3>5. u = 0
      <4>1. u \in Units /\ O = u + O BY <1>2, <3>2, <3>4 DEF Target
      <4> QED BY <4>1, Places, Sizes
    <3> QED BY <2>2, <2>6, <3>3, <3>4, <3>5
  <2> QED BY <2>4, <2>5, <2>6
<1>13. d \in [Positions -> Contents] BY <1>7 DEF Landed
<1> QED BY <1>5, <1>7, <1>8, <1>10, <1>11, <1>12, <1>13

(***************************************************************************)
(* What a chunk does to the data.                                           *)
(***************************************************************************)

\* The next chunk ends no further from the header's area than the interval.
LEMMA ChunkInInterval ==
  ASSUME Types, Control, pc = "write"
  PROVE  dist + Chunk <= Interval /\ dist \in Nat /\ Chunk \in Nat
<1>1. dist < Interval /\ Remaining > 0 /\ WholeChunks BY DEF Control
<1>2. dist \in Nat BY Sizes DEF Types
<1>3. dist + ChunkSize <= Interval BY <1>1, <1>2, ChunkFits
<1>4. Chunk \in 1 .. ChunkSize BY <1>1, ChunkIs DEF Control, Loaded
<1> QED BY <1>2, <1>3, <1>4, Sizes

\* A unit outside the window that could be read by the header still can.
LEMMA WindowKept ==
  ASSUME Types, Control, Layout, Faithful, pc = "write", NEW d, Landed(d),
         NEW u \in Units \ Window, ReadableIn(dev, u, length)
  PROVE  ReadableIn(d, u, SavedLength)
<1>1. mode \in {"encrypt", "decrypt"} /\ Remaining > 0 /\ Loaded BY DEF Control, Loaded
<1>2. length = IF mode = "encrypt" THEN SavedLength + dist ELSE SavedLength - dist BY <1>1 DEF Layout
<1>3. length \in 0 .. N /\ SavedLength \in 0 .. N BY SavedIs DEF Types
<1>4. dist + Chunk <= Interval /\ dist \in Nat /\ Chunk \in Nat BY ChunkInInterval
<1>5. ReadableIn(dev, u, SavedLength) BY <1>1 DEF Faithful
<1> DEFINE at == IF u >= N - SavedLength THEN u + O ELSE u
<1>6. at \in Positions /\ u \in Nat /\ u < N BY Places
<1>7. at \notin {Target(v) : v \in ChunkUnits}
  <2> SUFFICES ASSUME NEW v \in ChunkUnits, at = Target(v) PROVE FALSE OBVIOUS
  <2>1. CASE mode = "encrypt"
    <3>1. v \in N - length - Chunk .. N - length - 1 /\ Target(v) = v + O
      BY <1>1, <2>1, ChunkIs DEF Target
    <3>2. u < N - SavedLength
      BY <1>2, <1>3, <1>4, <1>6, <2>1, <3>1, Sizes
    <3>3. u < N - SavedLength - (Interval - O)
      <4>1. ~(N - SavedLength - (Interval - O) <= u) BY <2>1, <3>2 DEF Window
      <4> QED BY <1>3, <1>6, <4>1, Sizes
    <3> QED BY <1>2, <1>3, <1>4, <1>6, <2>1, <3>1, <3>2, <3>3, Sizes
  <2>2. CASE mode = "decrypt"
    <3>1. v \in N - length .. N - length + Chunk - 1 /\ Target(v) = v
      BY <1>1, <2>2, ChunkIs DEF Target
    <3>2. u >= N - SavedLength
      BY <1>2, <1>3, <1>4, <1>6, <2>2, <3>1, Sizes
    <3>3. u >= N - SavedLength + (Interval - O)
      <4>1. mode # "encrypt" BY <2>2
      <4>2. ~(u < N - SavedLength + (Interval - O)) BY <3>2, <4>1 DEF Window
      <4> QED BY <1>3, <1>6, <4>2, Sizes
    <3> QED BY <1>2, <1>3, <1>4, <1>6, <2>2, <3>1, <3>2, <3>3, Sizes
  <2> QED BY <1>1, <2>1, <2>2
<1>8. d[at] = dev[at] BY <1>6, <1>7, LandedKeeps
<1> QED BY <1>5, <1>8 DEF ReadableIn

\* The buffer has the data of the units that can be read, and of no other.
LEMMA BufferReads ==
  ASSUME Types, Control, Faithful, pc = "write", NEW u \in ChunkUnits
  PROVE  /\ u \in Units
         /\ buffer[u].kind = Into /\ buffer[u].of = u <=> ReadableIn(dev, u, length)
         /\ mode = "encrypt" =>
              /\ ReadableIn(dev, u, length) <=> dev[u].kind = "plain" /\ dev[u].of = u
              /\ buffer[u] = Junk <=> ~ReadableIn(dev, u, length)
<1>1. mode \in {"encrypt", "decrypt"} /\ Remaining > 0 BY DEF Control, Loaded
<1>2. /\ u \in Units /\ Source(u) \in Positions
      /\ mode = "encrypt" => u \in N - length - Chunk .. N - length - 1
      /\ mode = "decrypt" => u \in N - length .. N - length + Chunk - 1
  BY <1>1, ChunkIs
<1>3. dev[Source(u)] \in Contents BY <1>2, SavedIs
<1>4. buffer[u] = Transformed(u, dev[Source(u)]) BY DEF Faithful
<1>5. IF dev[Source(u)].kind = From /\ dev[Source(u)].of = u
      THEN buffer[u].kind = Into /\ buffer[u].of = u
      ELSE buffer[u] = Junk
  BY <1>2, <1>3, <1>4, TransformedIs
<1>6. Junk.kind = "junk" /\ Into \in {"plain", "cipher"} BY Made DEF Into
<1>7. length \in 0 .. N /\ u \in Nat BY <1>2, Places DEF Types
<1>8. ReadableIn(dev, u, length) <=> dev[Source(u)].kind = From /\ dev[Source(u)].of = u
  <2>1. CASE mode = "encrypt"
    <3>1. ~(u >= N - length) BY <1>2, <1>7, <2>1, Sizes
    <3> QED BY <2>1, <3>1 DEF ReadableIn, Source, From
  <2>2. CASE mode = "decrypt"
    <3>1. u >= N - length BY <1>2, <1>7, <2>2, Sizes
    <3>2. From = "cipher" /\ Source(u) = u + O BY <2>2 DEF From, Source
    <3> QED BY <3>1, <3>2 DEF ReadableIn
  <2> QED BY <1>1, <2>1, <2>2
<1>9. mode = "encrypt" => Source(u) = u /\ From = "plain" BY DEF Source, From
<1> QED BY <1>2, <1>5, <1>6, <1>8, <1>9

\* After the write the units of the chunk are read by the longer, or shorter,
\* area; the others as before.
LEMMA WriteReads ==
  ASSUME Types, Control, Layout, Faithful, pc = "write", NEW l,
         l = IF mode = "encrypt" THEN length + Chunk ELSE length - Chunk, NEW u \in Units
  PROVE  ReadableIn(Overwritten(Moved), u, l) <=> ReadableIn(dev, u, length)
<1> DEFINE d == Overwritten(Moved)
<1>1. mode \in {"encrypt", "decrypt"} /\ Remaining > 0 BY DEF Control, Loaded
<1>2. /\ Chunk \in Nat
      /\ mode = "encrypt" => ChunkUnits = N - length - Chunk .. N - length - 1
      /\ mode = "decrypt" => ChunkUnits = N - length .. N - length + Chunk - 1
  BY <1>1, ChunkIs
<1>3. length \in Nat /\ u \in Nat /\ u \in Positions /\ u + O \in Positions BY Places DEF Types
<1>4. \A p \in Positions : d[p] = IF p \in DOMAIN Moved THEN Moved[p] ELSE dev[p] BY DEF Overwritten
<1>5. /\ DOMAIN Moved = {Target(v) : v \in ChunkUnits}
      /\ \A v \in ChunkUnits : Moved[Target(v)] = buffer[v]
  BY <1>1, MovedIs
<1> HIDE DEF d
<1>6. CASE u \in ChunkUnits
  <2>1. Target(u) \in Positions /\ d[Target(u)] = buffer[u] BY <1>3, <1>4, <1>5, <1>6 DEF Target
  <2>2. ReadableIn(d, u, l) <=> buffer[u].kind = Into /\ buffer[u].of = u
    <3>1. CASE mode = "encrypt"
      <4>1. u >= N - l BY <1>2, <1>3, <1>6, <3>1, Sizes
      <4>2. Target(u) = u + O /\ Into = "cipher" BY <3>1 DEF Target, Into
      <4> QED BY <2>1, <4>1, <4>2 DEF ReadableIn
    <3>2. CASE mode = "decrypt"
      <4>1. ~(u >= N - l) BY <1>2, <1>3, <1>6, <3>2, Sizes
      <4>2. Target(u) = u /\ Into = "plain" BY <3>2 DEF Target, Into
      <4> QED BY <2>1, <4>1, <4>2 DEF ReadableIn
    <3> QED BY <1>1, <3>1, <3>2
  <2> QED BY <1>6, <2>2, BufferReads DEF d
<1>7. CASE u \notin ChunkUnits
  <2>1. u >= N - l <=> u >= N - length BY <1>1, <1>2, <1>3, <1>7, Sizes
  <2> DEFINE at == IF u >= N - length THEN u + O ELSE u
  <2>2. at \notin DOMAIN Moved
    <3> SUFFICES ASSUME NEW v \in ChunkUnits, at = Target(v) PROVE FALSE BY <1>5
    <3>1. CASE mode = "encrypt"
      <4>1. Target(v) = v + O BY <3>1 DEF Target
      <4> QED BY <1>2, <1>3, <1>7, <3>1, <4>1, Sizes
    <3>2. CASE mode = "decrypt"
      <4>1. Target(v) = v BY <3>2 DEF Target
      <4> QED BY <1>2, <1>3, <1>7, <3>2, <4>1, Sizes
    <3> QED BY <1>1, <3>1, <3>2
  <2>3. d[at] = dev[at] BY <1>3, <1>4, <2>2
  <2> QED BY <2>1, <2>3 DEF ReadableIn, d
<1> QED BY <1>6, <1>7

\* A write that fails costs nothing when its target is not its source, or when
\* the part that is was put back.
LEMMA FailureReads ==
  ASSUME Types, Control, Layout, Faithful, pc = "write", NEW w, NEW d \in Torn(Moved, w), NEW u \in Units
  PROVE  /\ Chunk <= O => (ReadableIn(d, u, length) <=> ReadableIn(dev, u, length))
         /\ mode = "encrypt" => (ReadableIn(Undone(d), u, length) <=> ReadableIn(dev, u, length))
<1>1. mode \in {"encrypt", "decrypt"} /\ Remaining > 0 BY DEF Control, Loaded
<1>2. /\ Chunk \in Nat
      /\ mode = "encrypt" => ChunkUnits = N - length - Chunk .. N - length - 1
      /\ mode = "decrypt" => ChunkUnits = N - length .. N - length + Chunk - 1
  BY <1>1, ChunkIs
<1>3. length \in Nat /\ u \in Nat /\ u \in Positions /\ u + O \in Positions BY Places DEF Types
<1>4. DOMAIN Moved = {Target(v) : v \in ChunkUnits} BY <1>1, MovedIs
<1>5. \A p \in Positions : p \notin DOMAIN Moved => d[p] = dev[p] BY TornIs
<1> DEFINE at == IF u >= N - length THEN u + O ELSE u
<1>6. at \in Positions BY <1>3
<1>7. ASSUME Chunk <= O PROVE ReadableIn(d, u, length) <=> ReadableIn(dev, u, length)
  <2>1. at \notin DOMAIN Moved
    <3> SUFFICES ASSUME NEW v \in ChunkUnits, at = Target(v) PROVE FALSE BY <1>4
    <3>1. CASE mode = "encrypt"
      <4>1. Target(v) = v + O BY <3>1 DEF Target
      <4> QED BY <1>2, <1>3, <1>7, <3>1, <4>1, Sizes
    <3>2. CASE mode = "decrypt"
      <4>1. Target(v) = v BY <3>2 DEF Target
      <4> QED BY <1>2, <1>3, <1>7, <3>2, <4>1, Sizes
    <3> QED BY <1>1, <3>1, <3>2
  <2>2. d[at] = dev[at] BY <1>5, <1>6, <2>1
  <2> QED BY <2>2 DEF ReadableIn
<1>8. ASSUME mode = "encrypt" PROVE ReadableIn(Undone(d), u, length) <=> ReadableIn(dev, u, length)
  <2> DEFINE back == {v \in ChunkUnits : \E x \in ChunkUnits : Target(x) = v}
  <2>1. \A p \in Positions : Undone(d)[p] = IF p \in back THEN Decrypt(buffer[p], p) ELSE d[p]
    BY DEF Undone
  <2>2. \A v : Target(v) = v + O BY <1>8 DEF Target
  <2>3. CASE u >= N - length
    <3>1. u + O \notin DOMAIN Moved BY <1>2, <1>3, <1>4, <1>8, <2>2, <2>3, Sizes
    <3>2. u + O \notin back BY <1>4, <3>1
    <3>3. Undone(d)[u + O] = dev[u + O] BY <1>3, <1>5, <2>1, <3>1, <3>2
    <3> QED BY <2>3, <3>3 DEF ReadableIn
  <2>4. CASE ~(u >= N - length) /\ u \notin DOMAIN Moved
    <3>1. u \notin back BY <1>4, <2>4
    <3>2. Undone(d)[u] = dev[u] BY <1>3, <1>5, <2>1, <2>4, <3>1
    <3> QED BY <2>4, <3>2 DEF ReadableIn
  <2>5. CASE ~(u >= N - length) /\ u \in DOMAIN Moved
    <3>1. PICK x \in ChunkUnits : u = x + O BY <1>4, <2>2, <2>5
    <3>2. u \in ChunkUnits BY <1>2, <1>3, <1>8, <2>5, <3>1, Sizes
    <3>3. u \in back BY <2>2, <3>1, <3>2
    <3>4. Undone(d)[u] = Decrypt(buffer[u], u) BY <1>3, <2>1, <3>3
    <3> HIDE DEF back
    <3>5. /\ buffer[u].kind = Into /\ buffer[u].of = u <=> ReadableIn(dev, u, length)
          /\ buffer[u] = Junk <=> ~ReadableIn(dev, u, length)
      BY <1>8, <3>2, BufferReads
    <3>6. buffer[u] \in Contents BY <3>2 DEF Layout, BufferHolds
    <3>7. Into = "cipher" /\ Junk.kind = "junk" BY <1>8, Made DEF Into
    <3>8. Decrypt(buffer[u], u).kind = "plain" /\ Decrypt(buffer[u], u).of = u <=> ReadableIn(dev, u, length)
      BY <3>5, <3>6, <3>7, CryptIs
    <3> QED BY <2>5, <3>4, <3>8 DEF ReadableIn
  <2> QED BY <2>3, <2>4, <2>5
<1> QED BY <1>7, <1>8

(***************************************************************************)
(* Steps that leave the medium alone.                                       *)
(***************************************************************************)
LEMMA MediumKept ==
  ASSUME UNCHANGED dev
  PROVE  /\ SavedLength' = SavedLength /\ (Exposed' <=> Exposed)
         /\ (HeadersSaved' <=> HeadersSaved) /\ (RestZeroed' <=> RestZeroed)
BY DEF SavedLength, Exposed, HeadersSaved, RestZeroed

LEMMA ChunkKept ==
  ASSUME UNCHANGED <<mode, length>>
  PROVE  Remaining' = Remaining /\ Chunk' = Chunk /\ ChunkUnits' = ChunkUnits /\ \A u : Source(u)' = Source(u)
BY DEF Remaining, Chunk, ChunkUnits, AreaStart, Smaller, Source

LEMMA LayoutAside ==
  ASSUME Layout, UNCHANGED <<dev, buffer>>,
         Loaded' => Loaded /\ UNCHANGED <<length, mode, dist>>,
         pc' = "write" <=> pc = "write",
         pc' \in {"writeBackup", "verify", "conceal"} => Exposed
  PROVE  Layout'
<1>1. SavedLength' = SavedLength /\ (Exposed' <=> Exposed) BY MediumKept
<1>2. BufferHolds'
  <2>1. CASE pc' = "write"
    <3>1. UNCHANGED <<mode, length>> BY <2>1 DEF Loaded
    <3>2. ChunkUnits' = ChunkUnits BY <3>1, ChunkKept
    <3> QED BY <2>1, <3>1, <3>2 DEF Layout, BufferHolds
  <2>2. CASE pc' # "write" BY <2>2 DEF Layout, BufferHolds
  <2> QED BY <2>1, <2>2
<1>3. \A p \in Positions : AtHome(p, dev'[p]) BY DEF Layout
<1>4. /\ Opens(dev'[BackupAt]) /\ ~dev'[BackupAt].mark => dev'[BackupAt].of = N
      /\ Opens(dev'[PrimaryAt]) => SavedLength' = N /\ (Loaded' => length' = N)
  BY <1>1 DEF Layout
<1>5. Loaded' => length' = IF mode' = "encrypt" THEN SavedLength' + dist' ELSE SavedLength' - dist'
  BY <1>1 DEF Layout
<1> QED BY <1>1, <1>2, <1>3, <1>4, <1>5 DEF Layout

LEMMA FinishAside ==
  ASSUME Finish, UNCHANGED dev,
         pc' \in {"finish", "unregister"} => pc' = pc /\ UNCHANGED mode,
         ui' \in {"encrypted", "decrypted"} => ui' = ui
  PROVE  Finish'
BY MediumKept DEF Finish

\* Whatever is left of the file system, plain or encrypted, is as it was.
LEMMA MarksKept ==
  ASSUME Marks, UNCHANGED found, pc' # "write",
         \A p \in Positions : dev'[p].kind \in {"plain", "cipher"} => dev'[p] = dev[p],
         SavedLength' > 0 \/ pc' \in Works \/ (Loaded' /\ length' > 0) =>
           SavedLength > 0 \/ pc \in Works \/ (Loaded /\ length > 0),
         SavedLength' = N \/ (Loaded' /\ length' = N) => SavedLength = N \/ (Loaded /\ length = N),
         (pc' \in {"zero", "unregister"} /\ mode' = "decrypt") \/ ui' = "decrypted" =>
           (pc \in {"zero", "unregister"} /\ mode = "decrypt") \/ ui = "decrypted",
         pc' \in {"verify", "conceal"} => SavedLength' = 0
  PROVE  Marks'
<1>1. 0 \in Positions /\ O \in Positions BY Places
<1>2. \A p \in Positions : dev'[p].kind \in {"plain", "cipher"} /\ dev'[p].mark => dev'[p].of = 0 BY DEF Marks
<1>3. (SavedLength' > 0 \/ pc' \in Works \/ (Loaded' /\ length' > 0)) /\ dev'[0].kind = "plain" =>
        (dev'[0].mark <=> ~found'.visible)
  BY <1>1 DEF Marks
<1>4. (SavedLength' = N \/ (Loaded' /\ length' = N)) /\ dev'[O].kind = "cipher" =>
        (dev'[O].mark <=> found'.visible)
  BY <1>1 DEF Marks
<1>5. ((pc' \in {"zero", "unregister"} /\ mode' = "decrypt") \/ ui' = "decrypted") /\ dev'[0].kind = "plain" =>
        (dev'[0].mark <=> found'.visible)
  BY <1>1 DEF Marks
<1> QED BY <1>2, <1>3, <1>4, <1>5 DEF Marks

LEMMA MarksAside ==
  ASSUME Marks, UNCHANGED <<dev, buffer, found>>,
         Loaded' => Loaded /\ UNCHANGED <<length, mode>>,
         pc' \in Works => pc \in Works,
         pc' = "write" => pc = "write",
         pc' \in {"zero", "unregister"} => pc \in {"zero", "unregister"},
         pc' \in {"verify", "conceal"} => pc \in {"verify", "conceal"},
         ui' = "decrypted" => ui = "decrypted"
  PROVE  Marks'
<1>1. SavedLength' = SavedLength BY MediumKept
<1>2. pc' \in {"verify", "conceal"} => SavedLength' = 0 BY <1>1 DEF Marks
<1>3. pc' = "write" \/ pc' \in {"zero", "unregister"} => UNCHANGED mode BY DEF Loaded
<1>4. CASE pc' # "write" BY <1>1, <1>2, <1>3, <1>4, MarksKept
<1>5. CASE pc' = "write"
  <2>1. UNCHANGED <<mode, length, pc>> /\ Loaded BY <1>5 DEF Loaded
  <2>2. ChunkUnits' = ChunkUnits BY <2>1, ChunkKept
  <2>3. ui' = "decrypted" => ui = "decrypted" OBVIOUS
  <2>4. pc' = "write" /\ Loaded' BY <1>5 DEF Loaded
  <2> QED BY <1>1, <2>1, <2>2, <2>3, <2>4 DEF Marks
<1> QED BY <1>4, <1>5

\* The same of a medium on which the header says what it said or that nothing is
\* encrypted.
LEMMA MarksOnMedium ==
  ASSUME Marks, SavedLength' \in {SavedLength, 0},
         \A p \in Positions : dev'[p].kind \in {"plain", "cipher"} => dev'[p] = dev[p]
  PROVE  /\ \A p \in Positions : dev'[p].kind \in {"plain", "cipher"} /\ dev'[p].mark => dev'[p].of = 0
         /\ SavedLength' > 0 /\ dev'[0].kind = "plain" => (dev'[0].mark <=> ~found.visible)
         /\ SavedLength' = N /\ dev'[O].kind = "cipher" => (dev'[O].mark <=> found.visible)
<1>1. 0 \in Positions /\ O \in Positions /\ 0 # N /\ ~(0 > 0) BY Places, Sizes
<1> QED BY <1>1 DEF Marks

\* A step that is not excused neither loses the data of a unit nor brings it back.
Kept == ~excused' => \A u \in Units : Readable(u)' <=> Readable(u)

LEMMA FaithfulAside ==
  ASSUME Faithful, UNCHANGED <<dev, buffer, losses>>,
         Loaded' => Loaded /\ UNCHANGED <<length, mode>>,
         pc' = "writeBackup" => SavedLength = 0,
         pc' = "write" => pc = "write",
         CurrentLength' = CurrentLength
  PROVE  Faithful' /\ Kept
<1>1. SavedLength' = SavedLength BY MediumKept
<1>2. pc' = "write" => buffer' = [u \in ChunkUnits' |-> Transformed(u, dev[Source(u)])']
  <2> SUFFICES ASSUME pc' = "write" PROVE buffer' = [u \in ChunkUnits' |-> Transformed(u, dev[Source(u)])'] OBVIOUS
  <2>1. UNCHANGED <<mode, length>> BY DEF Loaded
  <2>2. ChunkUnits' = ChunkUnits /\ \A u : Source(u)' = Source(u) BY <2>1, ChunkKept
  <2>3. \A u : Transformed(u, dev[Source(u)])' = Transformed(u, dev[Source(u)]) BY <2>1, <2>2 DEF Transformed
  <2> QED BY <2>2, <2>3 DEF Faithful, Kept
<1>3. Loaded' => Window' = Window BY <1>1 DEF Window
<1>4. Loaded' => \A u \in Units \ Window' : ReadableIn(dev', u, length') => ReadableIn(dev', u, SavedLength')
  BY <1>1, <1>3 DEF Faithful
<1>5. \A u : Readable(u)' <=> Readable(u) BY DEF Readable
<1>6. pc' = "writeBackup" => SavedLength' = 0 BY <1>1
<1>7. losses' = 0 => \A u \in Units : Readable(u)' BY <1>5 DEF Faithful
<1> QED BY <1>2, <1>4, <1>5, <1>6, <1>7 DEF Faithful, Kept

(***************************************************************************)
(* The wizard.                                                              *)
(***************************************************************************)
UsedTypes == [starts : 0 .. MaxStarts, failures : Nat, crashes : 0 .. MaxCrashes]

LEMMA UsedIs ==
  ASSUME used \in UsedTypes
  PROVE  /\ used.starts \in 0 .. MaxStarts /\ used.failures \in Nat /\ used.crashes \in 0 .. MaxCrashes
         /\ CountStart => used' \in UsedTypes /\ used'.starts = used.starts + 1 /\ used'.crashes = used.crashes
         /\ CountFailure => used' \in UsedTypes /\ used'.starts = used.starts /\ used'.crashes = used.crashes
         /\ used.crashes < MaxCrashes /\ used' = [used EXCEPT !.crashes = @ + 1] =>
              used' \in UsedTypes /\ used'.starts = used.starts /\ used'.crashes = used.crashes + 1
BY Sizes DEF UsedTypes, CountStart, CountFailure

\* A thread is launched: it is at its first place, nothing is done yet.
LEMMA Launched ==
  ASSUME ConversionInv, NEW label, Launch(label), label \in {"writeBackup", "open"},
         mode' \in {"encrypt", "decrypt"}, resumed' \in BOOLEAN, wipe' \in BOOLEAN, excused' \in BOOLEAN,
         ui' \in {"preparing"} \/ (ui' = ui /\ mode # "none"),
         label = "writeBackup" => mode' = "encrypt" /\ Exposed /\ (~excused' => SavedLength = 0),
         excused => excused',
         mode' = "decrypt" /\ resumed' /\ SavedLength = N => mode = "decrypt" /\ resumed
  PROVE  ConversionInv' /\ Kept
<1>1. /\ pc = "idle" /\ pc' = label /\ UNCHANGED <<dev, count, length, flag, buffer, losses, found>>
      /\ CountStart /\ result' = "none" /\ ~pause' /\ ~changed' /\ dist' = 0 /\ ~cancel'
      /\ pause' \in BOOLEAN /\ changed' \in BOOLEAN /\ cancel' \in BOOLEAN
  BY DEF Launch
<1>2. ~Loaded /\ ~Loaded' BY <1>1 DEF Loaded
<1>3. SavedLength' = SavedLength /\ (Exposed' <=> Exposed) BY <1>1, MediumKept
<1>4. used \in UsedTypes BY DEF ConversionInv, Types, UsedTypes
<1>5. used' \in UsedTypes /\ used'.starts = used.starts + 1 /\ used'.crashes = used.crashes /\ used.starts \in Nat
  BY <1>1, <1>4, UsedIs, Sizes
<1>6. Types'
  <2>1. count + Pending' <= used'.starts BY <1>1, <1>5 DEF Pending, Begins, ConversionInv, Types
  <2>2. ui' \in {"none", "preparing", "running", "paused", "error", "encrypted", "decrypted"}
    BY DEF ConversionInv, Types
  <2>3. label \in Labels BY DEF Labels
  <2>4. dist' \in 0 .. Interval BY <1>1, Sizes
  <2> QED BY <1>1, <1>5, <2>1, <2>2, <2>3, <2>4 DEF ConversionInv, Types, UsedTypes
<1>7. Control' BY <1>1, <1>2 DEF Control, Begins
<1>8. ui' \notin {"encrypted", "decrypted"} /\ Told' BY <1>1 DEF ConversionInv, Told
<1>9. Layout' BY <1>1, <1>2, LayoutAside DEF ConversionInv
<1>10. Finish' BY <1>1, <1>8, FinishAside DEF ConversionInv
<1>11. Marks' /\ (~found'.uncounted => Counts')
  <2>1. Marks' BY <1>1, <1>2, <1>8, MarksAside DEF ConversionInv, Works
  <2>2. ASSUME ~found'.uncounted PROVE Counts' BY <1>1, <1>2, <1>3, <2>2 DEF ConversionInv, Counts, Works
  <2> QED BY <2>1, <2>2
<1>12. ASSUME ~excused' PROVE Faithful' /\ Kept
  <2>1. CurrentLength' = CurrentLength BY <1>1, <1>2 DEF CurrentLength
  <2>2. pc' = "writeBackup" => SavedLength = 0 BY <1>1, <1>12
  <2>3. Faithful BY <1>12 DEF ConversionInv
  <2> QED BY <1>1, <1>2, <2>1, <2>2, <2>3, FaithfulAside
<1> QED BY <1>6, <1>7, <1>8, <1>9, <1>10, <1>11, <1>12 DEF ConversionInv, Kept

LEMMA StepLaunch ==
  ASSUME ConversionInv, StartEncryption \/ StartDecryption \/ ResumeHere \/ ResumeElsewhere
  PROVE  ConversionInv' /\ Kept
<1>1. resumed \in BOOLEAN /\ wipe \in BOOLEAN /\ excused \in BOOLEAN /\ mode \in {"none", "encrypt", "decrypt"}
  BY DEF ConversionInv, Types
<1>2. CASE StartEncryption
  <2>1. /\ Exposed /\ mode' = "encrypt" /\ wipe' \in BOOLEAN /\ resumed' = FALSE /\ ui' = "preparing"
        /\ Launch("writeBackup") /\ excused' = (excused \/ (Opens(dev[BackupAt]) /\ dev[BackupAt].of > 0))
    BY <1>2 DEF StartEncryption
  <2>2. excused' \in BOOLEAN /\ (excused => excused') BY <1>1, <2>1
  <2>3. SavedLength \in 0 .. N /\ (Opens(dev[BackupAt]) => dev[BackupAt].of = SavedLength)
        /\ (SavedLength # 0 => Opens(dev[BackupAt]))
    BY SavedIs DEF ConversionInv
  <2>4. ~excused' => SavedLength = 0
    <3>1. ~excused' => ~(Opens(dev[BackupAt]) /\ dev[BackupAt].of > 0) BY <2>1
    <3> QED BY <2>3, <3>1
  <2> QED BY <2>1, <2>2, <2>4, Launched
<1>3. CASE StartDecryption
  <2>1. /\ mode' = "decrypt" /\ resumed' = FALSE /\ ui' = "preparing" /\ Launch("open")
        /\ UNCHANGED <<wipe, excused>>
    BY <1>3 DEF StartDecryption
  <2> QED BY <1>1, <2>1, Launched
<1>4. CASE ResumeHere
  <2>1. mode # "none" /\ resumed /\ Launch("open") /\ UNCHANGED <<mode, wipe, resumed, ui, excused>>
    BY <1>4 DEF ResumeHere
  <2> QED BY <1>1, <2>1, Launched
<1>5. CASE ResumeElsewhere
  <2>1. /\ mode = "none" /\ ScanFinds /\ mode' \in {"encrypt", "decrypt"} /\ wipe' \in BOOLEAN /\ resumed' = TRUE
        /\ ui' = "preparing" /\ Launch("open") /\ UNCHANGED excused
    BY <1>5 DEF ResumeElsewhere
  <2>2. SavedLength # N BY <2>1 DEF ScanFinds, SavedLength
  <2> QED BY <1>1, <2>1, <2>2, Launched
<1> QED BY <1>2, <1>3, <1>4, <1>5

LEMMA StepOutside ==
  ASSUME ConversionInv, Cancel \/ ExitWizard \/ UNCHANGED vars
  PROVE  ConversionInv' /\ Kept
<1>1. /\ UNCHANGED <<dev, count, ui, wipe, pc, length, flag, dist, buffer, pause, changed, result>>
      /\ UNCHANGED <<used, losses, excused, found>>
      /\ cancel' \in BOOLEAN
  BY DEF Cancel, ExitWizard, vars, wizard, thread, ConversionInv, Types
<1>2. \/ UNCHANGED <<mode, resumed>>
      \/ pc = "idle" /\ mode' = "none" /\ resumed' = FALSE
  BY DEF Cancel, ExitWizard, vars, wizard
<1>3. (Loaded' <=> Loaded) /\ (Loaded => UNCHANGED mode) BY <1>1, <1>2 DEF Loaded
<1>4. SavedLength' = SavedLength /\ (Exposed' <=> Exposed) BY <1>1, MediumKept
<1>5. Types'
  <2>1. Pending' = Pending BY <1>1, <1>2 DEF Pending, Begins
  <2>2. mode' \in {"none", "encrypt", "decrypt"} /\ resumed' \in BOOLEAN BY <1>2 DEF ConversionInv, Types
  <2> QED BY <1>1, <2>1, <2>2 DEF ConversionInv, Types
<1>6. Control'
  <2>1. pc = "idle" => ~Loaded BY DEF Loaded
  <2>2. CASE UNCHANGED mode
    <3>1. Remaining' = Remaining BY <1>1, <2>2, ChunkKept
    <3> QED BY <1>1, <1>3, <2>2, <3>1 DEF ConversionInv, Control, WholeChunks
  <2>3. CASE pc = "idle" BY <1>1, <2>1, <2>3, <1>3 DEF Control, Begins
  <2> QED BY <1>2, <2>2, <2>3
<1>7. Told' BY <1>1, <1>2 DEF ConversionInv, Told
<1>8. pc' \in {"writeBackup", "verify", "conceal"} => Exposed BY <1>1 DEF ConversionInv, Layout
<1>9. Layout' BY <1>1, <1>3, <1>8, LayoutAside DEF ConversionInv
<1>10. Finish' BY <1>1, <1>2, FinishAside DEF ConversionInv
<1>11. Marks' /\ (~found'.uncounted => Counts')
  <2>1. Marks /\ (~found.uncounted => Counts) BY DEF ConversionInv
  <2>2. Marks' BY <1>1, <1>3, <2>1, MarksAside
  <2>3. ASSUME ~found'.uncounted PROVE Counts'
    <3>1. Counts BY <1>1, <2>1, <2>3
    <3> QED BY <1>1, <1>2, <1>3, <1>4, <3>1 DEF Counts, Works
  <2> QED BY <2>2, <2>3
<1>12. ASSUME ~excused' PROVE Faithful' /\ Kept
  <2>1. CurrentLength' = CurrentLength BY <1>1, <1>3 DEF CurrentLength
  <2>2. Faithful BY <1>1, <1>12 DEF ConversionInv
  <2>3. pc' = "writeBackup" => SavedLength = 0 BY <1>1, <2>2 DEF Faithful
  <2> QED BY <1>1, <1>3, <2>1, <2>2, <2>3, FaithfulAside
<1> QED BY <1>5, <1>6, <1>7, <1>9, <1>10, <1>11, <1>12 DEF ConversionInv, Kept

(***************************************************************************)
(* Steps of the thread that leave the medium alone.                         *)
(***************************************************************************)
LEMMA StepVerify == ASSUME ConversionInv, VerifyBackupHeader PROVE ConversionInv' /\ Kept
<1>1. /\ pc = "verify" /\ pc' \in {"conceal", "end"} /\ result' \in {result, "error"}
      /\ UNCHANGED <<dev, count, mode, resumed, wipe, cancel, ui, length, flag, dist, buffer, pause, changed>>
      /\ UNCHANGED <<losses, excused, found>> /\ (UNCHANGED used \/ CountFailure)
  BY DEF VerifyBackupHeader, Fails, wizard
<1>2. ~Loaded /\ ~Loaded' BY <1>1 DEF Loaded
<1>3. used \in UsedTypes BY DEF ConversionInv, Types, UsedTypes
<1>4. used' \in UsedTypes /\ used'.starts = used.starts /\ used'.crashes = used.crashes BY <1>1, <1>3, UsedIs
<1>5. Types'
  <2>1. Pending = 1 /\ Pending' \in {0, 1} BY <1>1 DEF Pending, Begins
  <2>2. pc' \in Labels /\ result' \in {"none", "ok", "paused", "error"} BY <1>1 DEF Labels, ConversionInv, Types
  <2>3. used.starts \in Nat /\ count \in Nat BY <1>3, UsedIs, Sizes DEF ConversionInv, Types
  <2>4. count' + Pending' <= used'.starts BY <1>1, <1>4, <2>1, <2>3 DEF ConversionInv, Types
  <2> QED BY <1>1, <1>4, <2>2, <2>4 DEF ConversionInv, Types, UsedTypes
<1>6. Control' BY <1>1, <1>2 DEF ConversionInv, Control, Begins
<1>7. Told' BY <1>1 DEF ConversionInv, Told
<1>8. Exposed BY <1>1 DEF ConversionInv, Layout
<1>9. Layout' BY <1>1, <1>2, <1>8, LayoutAside DEF ConversionInv
<1>10. Finish' BY <1>1, FinishAside DEF ConversionInv
<1>11. Marks' /\ (~found'.uncounted => Counts')
  <2>1. Marks /\ (~found.uncounted => Counts) BY DEF ConversionInv
  <2>2. Marks' BY <1>1, <1>2, <2>1, MarksAside DEF Works
  <2>3. SavedLength' = SavedLength /\ mode = "encrypt" BY <1>1, MediumKept DEF ConversionInv, Control, Begins
  <2>4. ASSUME ~found'.uncounted PROVE Counts'
    <3>1. Counts BY <1>1, <2>1, <2>4
    <3> QED BY <1>1, <2>3, <3>1 DEF Counts, Works
  <2> QED BY <2>2, <2>4
<1>12. ASSUME ~excused' PROVE Faithful' /\ Kept
  <2>1. CurrentLength' = CurrentLength BY <1>1, <1>2 DEF CurrentLength
  <2>2. Faithful BY <1>1, <1>12 DEF ConversionInv
  <2> QED BY <1>1, <1>2, <2>1, <2>2, FaithfulAside
<1> QED BY <1>5, <1>6, <1>7, <1>9, <1>10, <1>11, <1>12 DEF ConversionInv, Kept

LEMMA StepRegister == ASSUME ConversionInv, Register PROVE ConversionInv' /\ Kept
<1>1. /\ pc = "register" /\ pc' = "open" /\ SaveCount(1)
      /\ UNCHANGED <<dev, mode, resumed, wipe, cancel, ui, length, flag, dist, buffer, pause, changed, result>>
      /\ UNCHANGED <<used, losses, excused, found>>
  BY DEF Register, wizard, thread
<1>2. ~Loaded /\ ~Loaded' BY <1>1 DEF Loaded
<1>3. mode = "encrypt" BY <1>1 DEF ConversionInv, Control, Begins
<1>4. count \in Nat /\ count' = count + 1 BY <1>1 DEF SaveCount, ConversionInv, Types
<1>5. Types'
  <2>1. Pending = 1 /\ Pending' = 0 BY <1>1, <1>3 DEF Pending, Begins
  <2>2. pc' \in Labels BY <1>1 DEF Labels
  <2> QED BY <1>1, <1>4, <2>1, <2>2 DEF ConversionInv, Types
<1>6. Control' BY <1>1, <1>2, <1>3 DEF ConversionInv, Control, Begins
<1>7. Told' BY <1>1 DEF ConversionInv, Told
<1>9. Layout' BY <1>1, <1>2, LayoutAside DEF ConversionInv
<1>10. Finish' BY <1>1, FinishAside DEF ConversionInv
<1>11. Marks' /\ (~found'.uncounted => Counts')
  <2>1. Marks BY DEF ConversionInv
  <2>2. Marks' BY <1>1, <1>2, <2>1, MarksAside DEF Works
  <2>3. count' > 0 BY <1>4
  <2>4. Counts' BY <1>1, <2>3 DEF Counts, Works
  <2> QED BY <2>2, <2>4
<1>12. ASSUME ~excused' PROVE Faithful' /\ Kept
  <2>1. CurrentLength' = CurrentLength BY <1>1, <1>2 DEF CurrentLength
  <2>2. Faithful BY <1>1, <1>12 DEF ConversionInv
  <2> QED BY <1>1, <1>2, <2>1, <2>2, FaithfulAside
<1> QED BY <1>5, <1>6, <1>7, <1>9, <1>10, <1>11, <1>12 DEF ConversionInv, Kept

LEMMA StepOpen == ASSUME ConversionInv, OpenVolume PROVE ConversionInv' /\ Kept
<1>1. /\ pc = "open" /\ pc' = "loop" /\ OpenBackupHeader /\ resumed' = TRUE /\ ui' = "running"
      /\ IF mode = "decrypt" /\ ~resumed /\ length' = N THEN SaveCount(1) ELSE UNCHANGED count
      /\ found' = IF length' = 0 THEN [visible |-> Exposed, uncounted |-> count = 0] ELSE found
      /\ UNCHANGED <<dev, mode, wipe, cancel, dist, buffer, pause, changed, result, used, losses, excused>>
  BY DEF OpenVolume
<1>2. ~Loaded /\ Loaded' BY <1>1 DEF Loaded
<1>3. mode \in {"encrypt", "decrypt"} /\ dist = 0 /\ ~changed BY <1>1 DEF ConversionInv, Control
<1>4. SavedLength' = SavedLength /\ (Exposed' <=> Exposed) BY <1>1, MediumKept
<1>5. Types BY DEF ConversionInv
<1>6. SavedLength \in 0 .. N /\ length' = SavedLength /\ Opens(dev[BackupAt]) /\ flag' \in BOOLEAN
  <2>1. dev[BackupAt] \in Contents BY <1>5, SavedIs, Places
  <2>2. dev[BackupAt].mark \in BOOLEAN BY <2>1, ContentsAre
  <2> QED BY <1>1, <1>5, <2>2, SavedIs DEF OpenBackupHeader
<1>7. count \in Nat /\ count' \in {count, count + 1} /\ (mode = "decrypt" /\ ~resumed /\ length' = N => count' = count + 1)
      /\ (count' = count + 1 => (mode = "decrypt" /\ ~resumed) \/ count' = count)
  BY <1>1 DEF SaveCount, ConversionInv, Types
<1>8. Types'
  <2>1. Pending = (IF mode = "decrypt" /\ ~resumed THEN 1 ELSE 0) /\ Pending' = 0 BY <1>1 DEF Pending, Begins
  <2>2. pc' \in Labels BY <1>1 DEF Labels
  <2>3. found' \in [visible : BOOLEAN, uncounted : BOOLEAN] BY <1>1, <1>5 DEF Types, Exposed
  <2>4. used.starts \in Nat BY <1>5, Sizes DEF Types
  <2>5. count' + Pending' <= used'.starts BY <1>1, <1>5, <1>7, <2>1, <2>4 DEF Types
  <2> QED BY <1>1, <1>5, <1>6, <1>7, <2>2, <2>3, <2>5 DEF Types
<1>9. Control'
  <2>1. WholeChunks'
    <3>1. dist' = 0 * ChunkSize BY <1>1, <1>3, Sizes
    <3> QED BY <3>1 DEF WholeChunks
  <2>2. dist' < Interval BY <1>1, <1>3, Sizes
  <2> QED BY <1>1, <1>2, <1>3, <2>1, <2>2 DEF Control, Begins
<1>10. Told' BY <1>1 DEF Told
<1>11. Layout'
  <2>1. BufferHolds' BY <1>1 DEF ConversionInv, Layout, BufferHolds
  <2>2. Opens(dev'[PrimaryAt]) => SavedLength' = N /\ length' = N BY <1>1, <1>4, <1>6 DEF ConversionInv, Layout
  <2>3. length' = IF mode' = "encrypt" THEN SavedLength' + dist' ELSE SavedLength' - dist'
    BY <1>1, <1>3, <1>4, <1>6, Sizes
  <2>4. \A p \in Positions : AtHome(p, dev'[p]) BY <1>1 DEF ConversionInv, Layout
  <2>5. Opens(dev'[BackupAt]) /\ ~dev'[BackupAt].mark => dev'[BackupAt].of = N BY <1>1 DEF ConversionInv, Layout
  <2> QED BY <1>1, <1>2, <2>1, <2>2, <2>3, <2>4, <2>5 DEF Layout
<1>12. Finish' BY <1>1, FinishAside DEF ConversionInv
<1>13. Marks'
  <2>1. Marks BY DEF ConversionInv
  <2>2. \A p \in Positions : dev'[p].kind \in {"plain", "cipher"} /\ dev'[p].mark => dev'[p].of = 0
    BY <1>1, <2>1 DEF Marks
  <2>3. dev'[0].kind = "plain" => (dev'[0].mark <=> ~found'.visible)
    <3>1. CASE SavedLength = 0
      <4>1. found'.visible = Exposed BY <1>1, <1>6, <3>1
      <4>2. 0 \in Positions /\ dev[0] \in Contents BY <1>5, SavedIs, Places
      <4>3. dev[0].kind = "plain" => dev[0].of = 0 BY <4>2 DEF ConversionInv, Layout, AtHome
      <4>4. dev[0].kind = "plain" => (Exposed <=> ~dev[0].mark) BY <4>2, <4>3, IsPlain DEF Exposed
      <4> QED BY <1>1, <4>1, <4>4
    <3>2. CASE SavedLength > 0
      <4>1. found' = found BY <1>1, <1>6, <3>2
      <4> QED BY <1>1, <2>1, <3>2, <4>1 DEF Marks
    <3> QED BY <1>6, <3>1, <3>2
  <2>4. (SavedLength' = N \/ (Loaded' /\ length' = N)) /\ dev'[O].kind = "cipher" =>
          (dev'[O].mark <=> found'.visible)
    <3>1. SavedLength = N => found' = found BY <1>1, <1>6, Sizes
    <3> QED BY <1>1, <1>4, <1>6, <2>1, <3>1 DEF Marks
  <2> QED BY <1>1, <2>2, <2>3, <2>4 DEF Marks
<1>15. ASSUME ~found'.uncounted PROVE Counts'
  <2>1. CASE SavedLength = 0
    <3>1. count # 0 BY <1>1, <1>6, <1>15, <2>1
    <3>2. count' > 0 BY <1>7, <3>1
    <3> QED BY <1>1, <3>2 DEF Counts
  <2>2. CASE SavedLength # 0
    <3>1. Counts BY <1>1, <1>6, <1>15, <2>2 DEF ConversionInv
    <3>2. count' > 0 \/ (mode = "encrypt" /\ SavedLength = N)
      <4>1. CASE SavedLength \in 1 .. N - 1 BY <1>7, <3>1, <4>1 DEF Counts
      <4>2. CASE SavedLength = N BY <1>1, <1>3, <1>6, <1>7, <3>1, <4>2 DEF Counts
      <4> QED BY <1>6, <2>2, <4>1, <4>2, Sizes
    <3>3. SavedLength' \in 1 .. N - 1 => count' > 0 BY <1>4, <1>7, <3>1 DEF Counts
    <3> QED BY <1>1, <1>4, <1>6, <3>2, <3>3 DEF Counts
  <2> QED BY <2>1, <2>2
<1>14. ASSUME ~excused' PROVE Faithful' /\ Kept
  <2>1. Faithful BY <1>1, <1>14 DEF ConversionInv
  <2>2. CurrentLength' = CurrentLength
    <3>1. CurrentLength = SavedLength BY <1>2, <1>5, SavedIs
    <3>2. CurrentLength' = length' BY <1>2 DEF CurrentLength
    <3> QED BY <1>6, <3>1, <3>2
  <2>3. \A u : Readable(u)' <=> Readable(u) BY <1>1, <2>2 DEF Readable
  <2>4. \A u : ReadableIn(dev', u, length') => ReadableIn(dev', u, SavedLength') BY <1>4, <1>6
  <2> QED BY <1>1, <2>1, <2>3, <2>4 DEF Faithful, Kept
<1> QED BY <1>8, <1>9, <1>10, <1>11, <1>12, <1>13, <1>14, <1>15 DEF ConversionInv, Kept

LEMMA StepCannotOpen == ASSUME ConversionInv, CannotOpenVolume PROVE ConversionInv' /\ Kept
<1>1. /\ pc = "open" /\ pc' = "end" /\ resumed' = (resumed \/ mode = "encrypt") /\ result' = "error"
      /\ UNCHANGED <<dev, count, mode, wipe, cancel, ui, length, flag, dist, buffer, pause, changed>>
      /\ UNCHANGED <<losses, excused, found>> /\ (UNCHANGED used \/ CountFailure)
  BY DEF CannotOpenVolume, Fails
<1>2. ~Loaded /\ ~Loaded' BY <1>1 DEF Loaded
<1>3. used \in UsedTypes BY DEF ConversionInv, Types, UsedTypes
<1>4. used' \in UsedTypes /\ used'.starts = used.starts /\ used'.crashes = used.crashes BY <1>1, <1>3, UsedIs
<1>5. Types'
  <2>1. Pending \in {0, 1} /\ Pending' = 0 BY <1>1 DEF Pending, Begins
  <2>2. pc' \in Labels /\ resumed' \in BOOLEAN BY <1>1 DEF Labels, ConversionInv, Types
  <2>3. used.starts \in Nat /\ count \in Nat BY <1>3, UsedIs, Sizes DEF ConversionInv, Types
  <2>4. count' + Pending' <= used'.starts BY <1>1, <1>4, <2>1, <2>3 DEF ConversionInv, Types
  <2> QED BY <1>1, <1>4, <2>2, <2>4 DEF ConversionInv, Types, UsedTypes
<1>6. Control' BY <1>1, <1>2 DEF Control, Begins
<1>7. Told' BY <1>1 DEF ConversionInv, Told
<1>9. Layout' BY <1>1, <1>2, LayoutAside DEF ConversionInv
<1>10. Finish' BY <1>1, FinishAside DEF ConversionInv
<1>11. Marks' /\ (~found'.uncounted => Counts')
  <2>1. Marks /\ (~found.uncounted => Counts) BY DEF ConversionInv
  <2>2. Marks' BY <1>1, <1>2, <2>1, MarksAside DEF Works
  <2>3. SavedLength' = SavedLength BY <1>1, MediumKept
  <2>4. ASSUME ~found'.uncounted PROVE Counts'
    <3>1. Counts BY <1>1, <2>1, <2>4
    <3> QED BY <1>1, <2>3, <3>1 DEF Counts, Works
  <2> QED BY <2>2, <2>4
<1>12. ASSUME ~excused' PROVE Faithful' /\ Kept
  <2>1. CurrentLength' = CurrentLength BY <1>1, <1>2 DEF CurrentLength
  <2>2. Faithful BY <1>1, <1>12 DEF ConversionInv
  <2> QED BY <1>1, <1>2, <2>1, <2>2, FaithfulAside
<1> QED BY <1>5, <1>6, <1>7, <1>9, <1>10, <1>11, <1>12 DEF ConversionInv, Kept

\* A thread that has opened the volume moves on, to no place where anything was
\* written for it.
LEMMA LoadedAside ==
  ASSUME ConversionInv, Loaded, Loaded', pc \notin {"write", "closing"}, pc' \notin {"write", "finish", "unregister", "zero"},
         UNCHANGED <<dev, count, mode, resumed, wipe, cancel, length, flag, dist, buffer, losses, excused, found>>,
         UNCHANGED used \/ CountFailure,
         pause' \in BOOLEAN, changed' \in BOOLEAN, result' \in {result, "error", "paused"}, ui' \in {ui, "paused"},
         pc' \in Works => pc \in Works, Control'
  PROVE  ConversionInv' /\ Kept
<1>1. used \in UsedTypes BY DEF ConversionInv, Types, UsedTypes
<1>2. used' \in UsedTypes /\ used'.starts = used.starts /\ used'.crashes = used.crashes BY <1>1, UsedIs
<1>3. Types'
  <2>1. Pending = 0 /\ Pending' = 0 BY DEF Pending, Begins, Loaded
  <2>2. pc' \in Labels BY DEF Labels, Loaded
  <2>3. result' \in {"none", "ok", "paused", "error"} BY DEF ConversionInv, Types
  <2>4. ui' \in {"none", "preparing", "running", "paused", "error", "encrypted", "decrypted"}
    BY DEF ConversionInv, Types
  <2> QED BY <1>2, <2>1, <2>2, <2>3, <2>4 DEF ConversionInv, Types, UsedTypes
<1>4. ui' \notin {"encrypted", "decrypted"} /\ Told' BY DEF ConversionInv, Told, Loaded
<1>5. pc \notin {"writeBackup", "verify", "conceal"} /\ pc' \notin {"writeBackup", "verify", "conceal"} BY DEF Loaded
<1>6. Layout' BY <1>5, LayoutAside DEF ConversionInv
<1>7. Finish' BY <1>4, FinishAside DEF ConversionInv
<1>8. Marks' /\ (~found'.uncounted => Counts')
  <2>1. Marks /\ (~found.uncounted => Counts) BY DEF ConversionInv
  <2>2. Marks' BY <1>4, <1>5, <2>1, MarksAside
  <2>3. SavedLength' = SavedLength BY MediumKept
  <2>4. ASSUME ~found'.uncounted PROVE Counts'
    <3>1. Counts BY <2>1, <2>4
    <3>2. count > 0 \/ (SavedLength = length /\ length = N /\ mode = "encrypt")
      BY <3>1 DEF Counts, Loaded, Works
    <3> QED BY <2>3, <3>1, <3>2 DEF Counts, Works, Loaded
  <2> QED BY <2>2, <2>4
<1>9. ASSUME ~excused' PROVE Faithful' /\ Kept
  <2>1. CurrentLength' = CurrentLength BY DEF CurrentLength
  <2>2. Faithful BY <1>9 DEF ConversionInv
  <2> QED BY <1>5, <2>1, <2>2, FaithfulAside
<1> QED BY <1>3, <1>4, <1>6, <1>7, <1>8, <1>9 DEF ConversionInv, Kept

LEMMA StepAlong == ASSUME ConversionInv, ReadFails \/ Poll \/ LeaveLoop \/ Pause PROVE ConversionInv' /\ Kept
<1>1. CASE ReadFails
  <2>1. /\ pc = "loop" /\ pc' = "closing" /\ result' = "error" /\ CountFailure
        /\ UNCHANGED <<dev, count, mode, resumed, wipe, cancel, ui, length, flag, dist, buffer, pause, changed>>
        /\ UNCHANGED <<losses, excused, found>>
    BY <1>1 DEF ReadFails, Fails, wizard
  <2>2. Loaded /\ Loaded' /\ pc' \notin Works BY <2>1 DEF Loaded, Works
  <2>3. Remaining' = Remaining BY <2>1, ChunkKept
  <2>4. Control' BY <2>1, <2>2, <2>3 DEF ConversionInv, Control, Begins
  <2>5. pause' \in BOOLEAN /\ changed' \in BOOLEAN BY <2>1 DEF ConversionInv, Types
  <2> QED BY <2>1, <2>2, <2>4, <2>5, LoadedAside
<1>2. CASE Poll
  <2>1. /\ pc = "poll" /\ pc' = (IF cancel THEN "final" ELSE "loop") /\ pause' = cancel
        /\ UNCHANGED <<dev, count, mode, resumed, wipe, cancel, ui, length, flag, dist, buffer, changed, result>>
        /\ UNCHANGED <<used, losses, excused, found>>
    BY <1>2 DEF Poll, wizard
  <2>2. Loaded /\ Loaded' /\ pc \in Works BY <2>1 DEF Loaded, Works
  <2>3. Remaining' = Remaining BY <2>1, ChunkKept
  <2>4. Control' BY <2>1, <2>2, <2>3 DEF ConversionInv, Control, Begins, WholeChunks
  <2>5. pause' \in BOOLEAN /\ changed' \in BOOLEAN BY <2>1 DEF ConversionInv, Types
  <2> QED BY <2>1, <2>2, <2>4, <2>5, LoadedAside
<1>3. CASE LeaveLoop
  <2>1. /\ pc = "loop" /\ pc' = "final" /\ Remaining = 0
        /\ UNCHANGED <<dev, count, mode, resumed, wipe, cancel, ui, length, flag, dist, buffer, pause, changed, result>>
        /\ UNCHANGED <<used, losses, excused, found>>
    BY <1>3 DEF LeaveLoop, wizard, thread
  <2>2. Loaded /\ Loaded' /\ pc \in Works BY <2>1 DEF Loaded, Works
  <2>3. Remaining' = Remaining BY <2>1, ChunkKept
  <2>4. Control' BY <2>1, <2>2, <2>3 DEF ConversionInv, Control, Begins
  <2>5. pause' \in BOOLEAN /\ changed' \in BOOLEAN BY <2>1 DEF ConversionInv, Types
  <2> QED BY <2>1, <2>2, <2>4, <2>5, LoadedAside
<1>4. CASE Pause
  <2>1. /\ pc = "pause" /\ pc' = "closing" /\ result' = "paused" /\ ui' = "paused"
        /\ changed' = (changed /\ mode = "encrypt")
        /\ UNCHANGED <<dev, count, mode, resumed, wipe, cancel, length, flag, dist, buffer, pause>>
        /\ UNCHANGED <<used, losses, excused, found>>
    BY <1>4 DEF Pause
  <2>2. Loaded /\ Loaded' /\ pc \in Works BY <2>1 DEF Loaded, Works
  <2>3. dist = 0 /\ mode \in {"encrypt", "decrypt"} BY <2>1, <2>2 DEF ConversionInv, Control
  <2>4. Control' BY <2>1, <2>2, <2>3 DEF Control, Begins
  <2>5. pause' \in BOOLEAN /\ changed' \in BOOLEAN BY <2>1 DEF ConversionInv, Types
  <2> QED BY <2>1, <2>2, <2>4, <2>5, LoadedAside
<1> QED BY <1>1, <1>2, <1>3, <1>4

LEMMA StepEnd == ASSUME ConversionInv, EndThread PROVE ConversionInv' /\ Kept
<1>1. /\ pc = "end" /\ pc' = "idle" /\ cancel' = FALSE
      /\ ui' = IF result = "error" THEN (IF resumed THEN "paused" ELSE "error") ELSE ui
      /\ mode' = IF result = "ok" \/ (result = "error" /\ ~resumed) THEN "none" ELSE mode
      /\ UNCHANGED <<dev, count, resumed, wipe, length, flag, dist, buffer, pause, changed, result>>
      /\ UNCHANGED <<used, losses, excused, found>>
  BY DEF EndThread, thread
<1>2. ~Loaded /\ ~Loaded' BY <1>1 DEF Loaded
<1>3. SavedLength' = SavedLength BY <1>1, MediumKept
<1>4. Types'
  <2>1. Pending = 0 /\ Pending' = 0 BY <1>1 DEF Pending, Begins
  <2>2. /\ mode' \in {"none", "encrypt", "decrypt"} /\ pc' \in Labels /\ cancel' \in BOOLEAN
        /\ ui' \in {"none", "preparing", "running", "paused", "error", "encrypted", "decrypted"}
    BY <1>1 DEF ConversionInv, Types, Labels
  <2> QED BY <1>1, <2>1, <2>2 DEF ConversionInv, Types
<1>5. Control' BY <1>1, <1>2 DEF Control, Begins
<1>6. (ui' \in {"encrypted", "decrypted"} => ui' = ui) /\ Told'
  <2>1. ui' \in {"encrypted", "decrypted"} => ui' = ui BY <1>1
  <2> QED BY <1>1, <2>1 DEF ConversionInv, Told
<1>7. Layout' BY <1>1, <1>2, LayoutAside DEF ConversionInv
<1>8. Finish' BY <1>1, <1>6, FinishAside DEF ConversionInv
<1>9. Marks' /\ (~found'.uncounted => Counts')
  <2>1. Marks /\ (~found.uncounted => Counts) BY DEF ConversionInv
  <2>2. Marks' BY <1>1, <1>2, <1>6, <2>1, MarksAside DEF Works
  <2>3. mode' = "decrypt" => mode = "decrypt" BY <1>1
  <2>4. ASSUME ~found'.uncounted PROVE Counts'
    <3>1. Counts BY <1>1, <2>1, <2>4
    <3> QED BY <1>1, <1>3, <2>3, <3>1 DEF Counts, Works
  <2> QED BY <2>2, <2>4
<1>10. ASSUME ~excused' PROVE Faithful' /\ Kept
  <2>1. CurrentLength' = CurrentLength BY <1>1, <1>2 DEF CurrentLength
  <2>2. Faithful BY <1>1, <1>10 DEF ConversionInv
  <2> QED BY <1>1, <1>2, <2>1, <2>2, FaithfulAside
<1> QED BY <1>4, <1>5, <1>6, <1>7, <1>8, <1>9, <1>10 DEF ConversionInv, Kept

LEMMA StepUnregister == ASSUME ConversionInv, Unregister PROVE ConversionInv' /\ Kept
<1>1. /\ pc = "unregister" /\ pc' = "closing" /\ SaveCount(-1) /\ result' = "ok"
      /\ ui' = IF mode = "encrypt" THEN "encrypted" ELSE "decrypted"
      /\ UNCHANGED <<dev, mode, resumed, wipe, cancel, length, flag, dist, buffer, pause, changed>>
      /\ UNCHANGED <<used, losses, excused, found>>
  BY DEF Unregister
<1>2. Loaded /\ Loaded' BY <1>1 DEF Loaded
<1>3. SavedLength' = SavedLength BY <1>1, MediumKept
<1>4. count' \in Nat /\ count' <= count /\ count \in Nat BY <1>1 DEF SaveCount, ConversionInv, Types
<1>5. mode \in {"encrypt", "decrypt"} /\ Remaining = 0 /\ dist = 0 /\ (mode = "decrypt" => ~changed)
  BY <1>1, <1>2 DEF ConversionInv, Control
<1>6. length \in 0 .. N /\ SavedLength \in 0 .. N BY SavedIs DEF ConversionInv, Types
<1>7. length = (IF mode = "encrypt" THEN N ELSE 0) /\ SavedLength = length
  <2>1. length = IF mode = "encrypt" THEN N ELSE 0 BY <1>5, <1>6, Sizes DEF Remaining
  <2> QED BY <1>2, <1>5, <1>6, <2>1, Sizes DEF ConversionInv, Layout
<1>8. Types'
  <2>1. Pending = 0 /\ Pending' = 0 BY <1>1 DEF Pending, Begins
  <2>2. pc' \in Labels BY <1>1 DEF Labels
  <2>3. used.starts \in Nat BY Sizes DEF ConversionInv, Types
  <2>4. count' + Pending' <= used'.starts BY <1>1, <1>4, <2>1, <2>3 DEF ConversionInv, Types
  <2>5. ui' \in {"none", "preparing", "running", "paused", "error", "encrypted", "decrypted"} BY <1>1
  <2> QED BY <1>1, <1>4, <2>2, <2>4, <2>5 DEF ConversionInv, Types
<1>9. Control' BY <1>1, <1>2, <1>5 DEF Control, Begins
<1>10. Told' BY <1>1, <1>5, <1>7 DEF Told
<1>11. Layout' BY <1>1, <1>2, LayoutAside DEF ConversionInv
<1>12. Finish'
  <2>1. /\ mode = "encrypt" => dev[BackupAt] = Header(N, TRUE) /\ HeadersSaved
        /\ mode # "encrypt" => RestZeroed
    BY <1>1 DEF ConversionInv, Finish
  <2>2. (HeadersSaved' <=> HeadersSaved) /\ (RestZeroed' <=> RestZeroed) BY <1>1, MediumKept
  <2> QED BY <1>1, <2>1, <2>2 DEF Finish
<1>13. Marks' /\ Counts'
  <2>1. Marks BY DEF ConversionInv
  <2>2. ui' = "decrypted" => mode = "decrypt" BY <1>1, <1>5
  <2>3. pc' \notin Works BY <1>1 DEF Works
  <2>4. Marks' BY <1>1, <1>2, <1>3, <2>1, <2>2, <2>3, MarksKept
  <2>5. Counts' BY <1>1, <1>3, <1>6, <1>7, Sizes DEF Counts, Works
  <2> QED BY <2>4, <2>5
<1>14. ASSUME ~excused' PROVE Faithful' /\ Kept
  <2>1. CurrentLength' = CurrentLength BY <1>1, <1>2 DEF CurrentLength
  <2>2. Faithful BY <1>1, <1>14 DEF ConversionInv
  <2> QED BY <1>1, <1>2, <2>1, <2>2, FaithfulAside
<1> QED BY <1>8, <1>9, <1>10, <1>11, <1>12, <1>13, <1>14 DEF ConversionInv, Kept

(***************************************************************************)
(* A chunk is read.                                                         *)
(***************************************************************************)
LEMMA BufferMade ==
  ASSUME ConversionInv, pc = "loop", Remaining > 0, UNCHANGED <<mode, length>>, pc' = "write",
         NEW g, \A u \in ChunkUnits : g[u] = dev[Source(u)] \/ g[u] = Zeros,
         buffer' = [u \in ChunkUnits |-> Transformed(u, g[u])]
  PROVE  /\ BufferHolds'
         /\ \A u \in ChunkUnits :
              /\ buffer'[u].mark => u = 0
              /\ u = 0 /\ buffer'[u].kind # "junk" =>
                   (buffer'[u].mark <=> IF mode' = "encrypt" THEN found.visible ELSE ~found.visible)
<1>1. Types /\ mode \in {"encrypt", "decrypt"} BY DEF ConversionInv, Control, Loaded
<1>2. ChunkUnits' = ChunkUnits BY ChunkKept
<1>3. ASSUME NEW u \in ChunkUnits
      PROVE  /\ u \in Units /\ Source(u) \in Positions /\ g[u] \in Contents /\ buffer'[u] = Transformed(u, g[u])
             /\ g[u].kind = From => g[u] = dev[Source(u)]
             /\ buffer'[u] \in Contents
             /\ IF g[u].kind = From /\ g[u].of = u
                THEN buffer'[u].kind = Into /\ buffer'[u].of = u
                     /\ buffer'[u].mark = IF u = 0 THEN ~g[u].mark ELSE g[u].mark
                ELSE buffer'[u] = Junk
  <2>1. u \in Units /\ Source(u) \in Positions BY <1>1, ChunkIs
  <2>2. dev[Source(u)] \in Contents BY <1>1, <2>1, SavedIs
  <2>3. Zeros \in Contents /\ Zeros.kind # From BY Made DEF From
  <2>4. g[u] \in Contents /\ (g[u].kind = From => g[u] = dev[Source(u)]) BY <2>2, <2>3
  <2>5. buffer'[u] = Transformed(u, g[u]) OBVIOUS
  <2> QED BY <2>1, <2>4, <2>5, TransformedIs
<1>4. Junk.kind = "junk" /\ ~Junk.mark /\ Plain(0).kind = "plain" BY Made, Places
<1>5. BufferHolds'
  <2>1. buffer' \in [ChunkUnits -> Contents] BY <1>3
  <2>2. \A u \in ChunkUnits :
          /\ buffer'[u].kind \in {IF mode = "encrypt" THEN "cipher" ELSE "plain", "junk"}
          /\ buffer'[u].kind # "junk" => buffer'[u].of = u
    BY <1>3, <1>4 DEF Into
  <2> QED BY <1>2, <2>1, <2>2 DEF BufferHolds
<1>6. ASSUME NEW u \in ChunkUnits
      PROVE  /\ buffer'[u].mark => u = 0
             /\ u = 0 /\ buffer'[u].kind # "junk" =>
                  (buffer'[u].mark <=> IF mode' = "encrypt" THEN found.visible ELSE ~found.visible)
  <2>1. /\ \A p \in Positions : dev[p].kind \in {"plain", "cipher"} /\ dev[p].mark => dev[p].of = 0
        /\ dev[0].kind = "plain" => (dev[0].mark <=> ~found.visible)
        /\ length = N /\ dev[O].kind = "cipher" => (dev[O].mark <=> found.visible)
    BY DEF ConversionInv, Marks, Works, Loaded
  <2>2. CASE ~(g[u].kind = From /\ g[u].of = u)
    <3>1. buffer'[u] = Junk BY <1>3, <2>2
    <3> QED BY <1>4, <3>1
  <2>3. CASE g[u].kind = From /\ g[u].of = u
    <3>1. /\ buffer'[u].mark = IF u = 0 THEN ~g[u].mark ELSE g[u].mark
          /\ g[u] = dev[Source(u)] /\ Source(u) \in Positions
      BY <1>3, <2>3
    <3>2. found.visible \in BOOLEAN BY <1>1 DEF Types
    <3>3. CASE u # 0
      <4>1. g[u].kind \in {"plain", "cipher"} BY <2>3 DEF From
      <4>2. ~g[u].mark BY <2>1, <2>3, <3>1, <3>3, <4>1
      <4>3. ~buffer'[u].mark BY <3>1, <3>3, <4>2
      <4> QED BY <3>3, <4>3
    <3>4. CASE u = 0 /\ mode = "encrypt"
      <4>1. Source(u) = 0 /\ From = "plain" BY <3>4 DEF Source, From
      <4>2. g[u].mark <=> ~found.visible BY <2>1, <2>3, <3>1, <4>1
      <4>3. buffer'[u].mark <=> found.visible BY <3>1, <3>2, <3>4, <4>2
      <4> QED BY <3>4, <4>3
    <3>5. CASE u = 0 /\ mode = "decrypt"
      <4>1. Source(u) = O /\ From = "cipher" BY <3>5, Sizes DEF Source, From
      <4>2. length = N BY <1>1, <3>5, ChunkIs
      <4>3. g[u].mark <=> found.visible BY <2>1, <2>3, <3>1, <4>1, <4>2
      <4>4. buffer'[u].mark <=> ~found.visible BY <3>1, <3>2, <3>5, <4>3
      <4>5. mode' # "encrypt" BY <3>5
      <4> QED BY <3>5, <4>4, <4>5
    <3> QED BY <1>1, <3>3, <3>4, <3>5
  <2> QED BY <2>2, <2>3
<1> QED BY <1>5, <1>6

LEMMA StepReadChunk ==
  ASSUME ConversionInv, pc = "loop", Remaining > 0, pc' = "write",
         NEW g, \A u \in ChunkUnits : g[u] = dev[Source(u)] \/ g[u] = Zeros,
         buffer' = [u \in ChunkUnits |-> Transformed(u, g[u])],
         UNCHANGED <<dev, count, wizard, length, flag, dist, pause, changed, result, losses, found>>,
         UNCHANGED used \/ CountFailure,
         \/ UNCHANGED excused /\ \A u \in ChunkUnits : g[u] = dev[Source(u)]
         \/ excused' = TRUE
  PROVE  ConversionInv' /\ Kept
<1> USE DEF wizard
<1>1. Loaded /\ Loaded' BY DEF Loaded
<1>2. used \in UsedTypes BY DEF ConversionInv, Types, UsedTypes
<1>3. used' \in UsedTypes /\ used'.starts = used.starts /\ used'.crashes = used.crashes BY <1>2, UsedIs
<1>4. ChunkUnits' = ChunkUnits /\ Remaining' = Remaining /\ \A u : Source(u)' = Source(u) BY ChunkKept
<1>5. SavedLength' = SavedLength /\ (Exposed' <=> Exposed) BY MediumKept
<1>6. Types'
  <2>1. Pending = 0 /\ Pending' = 0 BY DEF Pending, Begins
  <2>2. pc' \in Labels /\ excused' \in BOOLEAN BY DEF Labels, ConversionInv, Types
  <2> QED BY <1>3, <2>1, <2>2 DEF ConversionInv, Types, UsedTypes
<1>7. Control'
  <2>1. WholeChunks' <=> WholeChunks BY DEF WholeChunks
  <2> QED BY <1>1, <1>4, <2>1 DEF ConversionInv, Control, Begins
<1>8. Told' BY DEF ConversionInv, Told
<1>9. /\ BufferHolds'
      /\ \A u \in ChunkUnits :
           /\ buffer'[u].mark => u = 0
           /\ u = 0 /\ buffer'[u].kind # "junk" =>
                (buffer'[u].mark <=> IF mode' = "encrypt" THEN found.visible ELSE ~found.visible)
  BY BufferMade
<1>10. Layout'
  <2>1. \A p \in Positions : AtHome(p, dev'[p]) BY DEF ConversionInv, Layout
  <2>2. Opens(dev'[BackupAt]) /\ ~dev'[BackupAt].mark => dev'[BackupAt].of = N BY DEF ConversionInv, Layout
  <2>3. Opens(dev'[PrimaryAt]) => SavedLength' = N /\ length' = N BY <1>1, <1>5 DEF ConversionInv, Layout
  <2>4. length' = IF mode' = "encrypt" THEN SavedLength' + dist' ELSE SavedLength' - dist'
    BY <1>1, <1>5 DEF ConversionInv, Layout
  <2> QED BY <1>9, <2>1, <2>2, <2>3, <2>4 DEF Layout
<1>11. Finish' BY FinishAside DEF ConversionInv
<1>12. Marks' /\ (~found'.uncounted => Counts')
  <2>1. Marks /\ (~found.uncounted => Counts) BY DEF ConversionInv
  <2>2. /\ \A p \in Positions : dev'[p].kind \in {"plain", "cipher"} /\ dev'[p].mark => dev'[p].of = 0
        /\ dev'[0].kind = "plain" => (dev'[0].mark <=> ~found'.visible)
        /\ (SavedLength' = N \/ length' = N) /\ dev'[O].kind = "cipher" => (dev'[O].mark <=> found'.visible)
    BY <1>1, <1>5, <2>1 DEF Marks, Works
  <2>3. ui' # "decrypted" BY DEF ConversionInv, Told
  <2>4. Marks' BY <1>4, <1>9, <2>2, <2>3 DEF Marks
  <2>5. ASSUME ~found'.uncounted PROVE Counts'
    <3>1. Counts BY <2>1, <2>5
    <3> QED BY <1>5, <3>1 DEF Counts, Works
  <2> QED BY <2>4, <2>5
<1>13. ASSUME ~excused' PROVE Faithful' /\ Kept
  <2>1. Faithful BY <1>13 DEF ConversionInv
  <2>2. CurrentLength' = CurrentLength BY <1>1 DEF CurrentLength
  <2>3. buffer' = [u \in ChunkUnits' |-> Transformed(u, dev[Source(u)])']
    <3>1. \A u \in ChunkUnits : g[u] = dev[Source(u)] BY <1>13
    <3>2. \A u : Transformed(u, dev[Source(u)])' = Transformed(u, dev[Source(u)]) BY <1>4 DEF Transformed
    <3> QED BY <1>4, <3>1, <3>2
  <2>4. Window' = Window BY <1>5 DEF Window
  <2>5. \A u \in Units \ Window' : ReadableIn(dev', u, length') => ReadableIn(dev', u, SavedLength')
    BY <1>1, <1>5, <2>1, <2>4 DEF Faithful
  <2>6. \A u : Readable(u)' <=> Readable(u) BY <2>2 DEF Readable
  <2> QED BY <2>1, <2>3, <2>5, <2>6 DEF Faithful, Kept
<1> QED BY <1>6, <1>7, <1>8, <1>10, <1>11, <1>12, <1>13 DEF ConversionInv, Kept

LEMMA StepRead == ASSUME ConversionInv, ReadChunk \/ (GiveUpUnit /\ mode # "encrypt") PROVE ConversionInv' /\ Kept
<1>1. CASE ReadChunk
  <2> DEFINE g == [u \in ChunkUnits |-> dev[Source(u)]]
  <2>1. /\ pc = "loop" /\ Remaining > 0 /\ pc' = "write"
        /\ buffer' = [u \in ChunkUnits |-> Transformed(u, g[u])]
        /\ UNCHANGED <<dev, count, wizard, length, flag, dist, pause, changed, result, losses, found>>
        /\ UNCHANGED used /\ UNCHANGED excused
    BY <1>1 DEF ReadChunk
  <2>2. \A u \in ChunkUnits : g[u] = dev[Source(u)] OBVIOUS
  <2> HIDE DEF g
  <2> QED BY <2>1, <2>2, StepReadChunk
<1>2. CASE GiveUpUnit /\ mode # "encrypt"
  <2>1. PICK lost \in ChunkUnits :
          /\ buffer' = [u \in ChunkUnits |-> Transformed(u, IF u = lost THEN Zeros ELSE dev[Source(u)])]
          /\ pc' = "write" /\ UNCHANGED dev
    BY <1>2 DEF GiveUpUnit
  <2> DEFINE g == [u \in ChunkUnits |-> IF u = lost THEN Zeros ELSE dev[Source(u)]]
  <2>2. /\ pc = "loop" /\ Remaining > 0 /\ CountFailure /\ excused' = TRUE
        /\ UNCHANGED <<count, wizard, length, flag, dist, pause, changed, result, losses, found>>
    BY <1>2 DEF GiveUpUnit
  <2>3. /\ \A u \in ChunkUnits : g[u] = dev[Source(u)] \/ g[u] = Zeros
        /\ buffer' = [u \in ChunkUnits |-> Transformed(u, g[u])]
    BY <2>1
  <2> HIDE DEF g
  <2> QED BY <2>1, <2>2, <2>3, StepReadChunk
<1> QED BY <1>1, <1>2

(***************************************************************************)
(* A chunk is written.                                                      *)
(***************************************************************************)

\* A unit that encryption gives up is zeroed on the medium.
LEMMA StepGiveUp == ASSUME ConversionInv, GiveUpUnit, mode = "encrypt" PROVE ConversionInv' /\ Kept
<1>1. PICK lost \in ChunkUnits : dev' = [dev EXCEPT ![Source(lost)] = Zeros] /\ UNCHANGED <<pc, buffer>>
  BY DEF GiveUpUnit
<1>2. /\ pc = "loop" /\ Remaining > 0 /\ CountFailure /\ excused' = TRUE
      /\ UNCHANGED <<count, mode, resumed, wipe, cancel, ui, length, flag, dist, pause, changed, result, losses, found>>
  BY DEF GiveUpUnit, wizard
<1>3. Loaded /\ Loaded' BY <1>1, <1>2 DEF Loaded
<1>4. Types BY DEF ConversionInv
<1>5. used \in UsedTypes BY DEF ConversionInv, Types, UsedTypes
<1>6. used' \in UsedTypes /\ used'.starts = used.starts /\ used'.crashes = used.crashes BY <1>2, <1>5, UsedIs
<1>7. Source(lost) \in Positions /\ Source(lost) # BackupAt
  <2>1. Source(lost) \in Positions /\ Source(lost) < BackupAt BY <1>2, <1>4, ChunkIs
  <2> QED BY <2>1, Places
<1> DEFINE s == Source(lost)
<1> HIDE DEF s
<1>8. /\ dev \in [Positions -> Contents] /\ dev' \in [Positions -> Contents]
      /\ dev'[BackupAt] = dev[BackupAt]
      /\ \A p \in Positions : dev'[p] = dev[p] \/ dev'[p] = Zeros
  BY <1>1, <1>4, <1>7, Made, Places DEF Types
<1>9. Zeros.kind = "zeros" /\ ~Zeros.mark /\ Plain(0).kind = "plain" BY Made, Places
<1>10. SavedLength' = SavedLength BY <1>8 DEF SavedLength
<1>11. Remaining' = Remaining BY <1>2, ChunkKept
<1>12. Types'
  <2>1. Pending' = Pending BY <1>1, <1>2 DEF Pending
  <2>2. excused' \in BOOLEAN BY <1>2
  <2> QED BY <1>1, <1>2, <1>4, <1>6, <1>8, <2>1, <2>2 DEF Types, UsedTypes
<1>13. Control' BY <1>1, <1>2, <1>3, <1>11 DEF ConversionInv, Control, Begins, WholeChunks
<1>14. Told' BY <1>1, <1>2 DEF ConversionInv, Told
<1>15. Layout'
  <2>1. \A p \in Positions : AtHome(p, dev'[p]) BY <1>8, <1>9 DEF ConversionInv, Layout, AtHome
  <2>2. BufferHolds' BY <1>1, <1>2 DEF ConversionInv, Layout, BufferHolds
  <2>3. Opens(dev'[BackupAt]) /\ ~dev'[BackupAt].mark => dev'[BackupAt].of = N BY <1>8 DEF ConversionInv, Layout
  <2>4. Opens(dev'[PrimaryAt]) => SavedLength' = N /\ length' = N
    <3>1. Opens(dev'[PrimaryAt]) => Opens(dev[PrimaryAt]) BY <1>8, <1>9, Places DEF Opens
    <3> QED BY <1>2, <1>3, <1>10, <3>1 DEF ConversionInv, Layout
  <2>5. length' = IF mode' = "encrypt" THEN SavedLength' + dist' ELSE SavedLength' - dist'
    BY <1>2, <1>3, <1>10 DEF ConversionInv, Layout
  <2> QED BY <1>1, <1>2, <2>1, <2>2, <2>3, <2>4, <2>5 DEF Layout
<1>16. ui \notin {"encrypted", "decrypted"} BY <1>2 DEF ConversionInv, Told
<1>17. Finish' BY <1>1, <1>2, <1>16 DEF Finish
<1>18. Marks' /\ (~found'.uncounted => Counts')
  <2>1. Marks /\ (~found.uncounted => Counts) BY DEF ConversionInv
  <2>2. \A p \in Positions : dev'[p].kind \in {"plain", "cipher"} => dev'[p] = dev[p] BY <1>8, <1>9
  <2>3. Marks' BY <1>1, <1>2, <1>3, <1>10, <1>16, <2>1, <2>2, MarksKept DEF Works
  <2>4. ASSUME ~found'.uncounted PROVE Counts'
    <3>1. Counts BY <1>2, <2>1, <2>4
    <3> QED BY <1>1, <1>2, <1>10, <3>1 DEF Counts, Works
  <2> QED BY <2>3, <2>4
<1> QED BY <1>2, <1>12, <1>13, <1>14, <1>15, <1>17, <1>18 DEF ConversionInv, Kept

LEMMA StepWriteChunk == ASSUME ConversionInv, WriteChunk PROVE ConversionInv' /\ Kept
<1>1. /\ pc = "write" /\ dev' = Overwritten(Moved) /\ buffer' = <<>> /\ changed' = TRUE
      /\ length' = IF mode = "encrypt" THEN length + Chunk ELSE length - Chunk
      /\ dist' = dist + Chunk
      /\ pc' = IF dist' >= Interval THEN "update" ELSE "poll"
      /\ UNCHANGED <<count, mode, resumed, wipe, cancel, ui, flag, pause, result, used, losses, excused, found>>
  BY DEF WriteChunk, Advance, wizard
<1>2. Loaded /\ Loaded' BY <1>1 DEF Loaded
<1>3. Types /\ Control /\ Layout /\ mode \in {"encrypt", "decrypt"} /\ Remaining > 0 /\ WholeChunks
  BY <1>1, <1>2 DEF ConversionInv, Control
<1>4. /\ Chunk \in 1 .. ChunkSize /\ Chunk <= Remaining
      /\ mode = "encrypt" => length + Chunk <= N
      /\ mode = "decrypt" => Chunk <= length
      /\ mode = "decrypt" => ChunkUnits = N - length .. N - length + Chunk - 1
  BY <1>3, ChunkIs
<1>5. length \in 0 .. N BY <1>3 DEF Types
<1>6. dist + Chunk <= Interval /\ dist \in Nat BY <1>1, <1>3, ChunkInInterval
<1>7. Landed(dev') BY <1>1, <1>3, ChunkLands
<1>8. /\ dev' \in [Positions -> Contents]
      /\ \A p \in Positions : AtHome(p, dev'[p])
      /\ dev'[BackupAt] = dev[BackupAt]
      /\ Opens(dev'[0]) => dev'[0] = dev[0]
      /\ Marks => /\ \A p \in Positions : dev'[p].kind \in {"plain", "cipher"} /\ dev'[p].mark => dev'[p].of = 0
                  /\ dev'[0].kind = "plain" => (dev'[0].mark <=> ~found.visible)
                  /\ dev'[O].kind = "cipher" => dev'[O] = dev[O] \/ (dev'[O].mark <=> found.visible)
  BY <1>1, <1>3, <1>7, LandedKeeps
<1>9. SavedLength' = SavedLength BY <1>8 DEF SavedLength
<1>10. length' \in 0 .. N /\ dist' \in 0 .. Interval BY <1>1, <1>3, <1>4, <1>5, <1>6, Sizes
<1>11. ~Opens(dev'[0])
  <2> SUFFICES ASSUME Opens(dev'[0]) PROVE FALSE OBVIOUS
  <2>1. Opens(dev[PrimaryAt]) BY <1>8, Places
  <2>2. length = N BY <1>2, <1>3, <2>1 DEF Layout
  <2>3. mode = "decrypt" BY <1>3, <2>2, Sizes DEF Remaining
  <2>4. 0 \in ChunkUnits BY <1>4, <2>2, <2>3, Sizes
  <2>5. Target(0) = 0 BY <2>3 DEF Target
  <2>6. 0 \in DOMAIN Moved /\ Moved[0] = buffer[0] BY <1>3, <2>4, <2>5, MovedIs
  <2>7. dev'[0] = buffer[0] BY <1>1, <2>6, Places DEF Overwritten
  <2>8. buffer[0].kind # "header" BY <1>1, <1>3, <2>4 DEF Layout, BufferHolds
  <2> QED BY <2>7, <2>8 DEF Opens
<1>12. Types'
  <2>1. Pending = 0 /\ Pending' = 0 BY <1>1 DEF Pending, Begins
  <2>2. pc' \in Labels /\ changed' \in BOOLEAN BY <1>1 DEF Labels
  <2> QED BY <1>1, <1>3, <1>8, <1>10, <2>1, <2>2 DEF Types
<1>13. Control'
  <2>1. Remaining' = 0 \/ WholeChunks'
    <3>1. CASE Chunk = ChunkSize
      <4>1. PICK k \in Nat : dist = k * ChunkSize BY <1>3 DEF WholeChunks
      <4>2. (k + 1) * ChunkSize = k * ChunkSize + ChunkSize BY Sizes
      <4>3. dist' = (k + 1) * ChunkSize BY <1>1, <3>1, <4>1, <4>2
      <4> QED BY <4>3 DEF WholeChunks
    <3>2. CASE Chunk = Remaining
      <4>1. Remaining' = 0
        <5>1. CASE mode = "encrypt"
          <6>1. length' = length + Chunk /\ Chunk = N - length /\ mode' = "encrypt"
            BY <1>1, <3>2, <5>1 DEF Remaining
          <6>2. Remaining' = N - length' BY <6>1 DEF Remaining
          <6>3. Chunk \in Int BY <1>4
          <6> QED BY <1>5, <6>1, <6>2, <6>3, Sizes
        <5>2. CASE mode = "decrypt"
          <6>1. length' = length - Chunk /\ Chunk = length /\ mode' = "decrypt"
            BY <1>1, <3>2, <5>2 DEF Remaining
          <6>2. Remaining' = length' BY <6>1 DEF Remaining
          <6> QED BY <1>5, <6>1, <6>2
        <5> QED BY <1>3, <5>1, <5>2
      <4> QED BY <4>1
    <3> QED BY <3>1, <3>2 DEF Chunk, Smaller
  <2>2. pc' = "poll" => dist' < Interval BY <1>1, <1>10, Sizes
  <2> QED BY <1>1, <1>3, <2>1, <2>2 DEF Control, Begins, Loaded
<1>14. ui \notin {"encrypted", "decrypted"} BY <1>1 DEF ConversionInv, Told
<1>15. Told' BY <1>1, <1>14 DEF Told
<1>16. Layout'
  <2>1. BufferHolds' BY <1>1 DEF BufferHolds
  <2>2. Opens(dev'[BackupAt]) /\ ~dev'[BackupAt].mark => dev'[BackupAt].of = N BY <1>3, <1>8 DEF Layout
  <2>3. length' = IF mode' = "encrypt" THEN SavedLength' + dist' ELSE SavedLength' - dist'
    <3>1. SavedLength \in 0 .. N /\ Chunk \in Nat BY <1>3, <1>4, SavedIs
    <3>2. length = IF mode = "encrypt" THEN SavedLength + dist ELSE SavedLength - dist BY <1>2, <1>3 DEF Layout
    <3> QED BY <1>1, <1>5, <1>6, <1>9, <3>1, <3>2
  <2> QED BY <1>1, <1>8, <1>11, <2>1, <2>2, <2>3, Places DEF Layout
<1>17. Finish' BY <1>1, <1>14 DEF Finish
<1>18. Marks' /\ (~found'.uncounted => Counts')
  <2>1. Marks /\ (~found.uncounted => Counts) BY DEF ConversionInv
  <2>2. ASSUME SavedLength' = N \/ length' = N, dev'[O].kind = "cipher" PROVE dev'[O].mark <=> found'.visible
    <3>1. CASE SavedLength = N
      <4>1. dev[O].kind = "cipher" => (dev[O].mark <=> found.visible) BY <2>1, <3>1 DEF Marks
      <4> QED BY <1>1, <1>8, <2>1, <2>2, <4>1
    <3>2. CASE length' = N
      <4>1. mode = "encrypt" /\ length + Chunk = N BY <1>1, <1>3, <1>4, <1>5, <3>2, Sizes
      <4>2. 0 \in ChunkUnits
        <5>1. ChunkUnits = N - length - Chunk .. N - length - 1 BY <1>3, <4>1, ChunkIs
        <5> QED BY <1>4, <1>5, <4>1, <5>1, Sizes
      <4>3. Target(0) = O BY <4>1, Sizes DEF Target
      <4>4. O \in DOMAIN Moved /\ Moved[O] = buffer[0] BY <1>3, <4>2, <4>3, MovedIs
      <4>5. dev'[O] = buffer[0] BY <1>1, <4>4, Places DEF Overwritten
      <4>6. buffer[0].kind # "junk" => (buffer[0].mark <=> found.visible) BY <1>1, <2>1, <4>1, <4>2 DEF Marks
      <4> QED BY <1>1, <2>2, <4>5, <4>6
    <3> QED BY <1>9, <2>2, <3>1, <3>2
  <2>3. pc' \notin {"write", "zero", "unregister", "verify", "conceal"} BY <1>1
  <2>4. Marks' BY <1>1, <1>8, <1>14, <2>1, <2>2, <2>3 DEF Marks
  <2>5. ASSUME ~found'.uncounted PROVE Counts'
    <3>1. Counts BY <1>1, <2>1, <2>5
    <3>2. ~(mode = "encrypt" /\ length = N) BY <1>3, Sizes DEF Remaining
    <3>3. count > 0 BY <1>1, <3>1, <3>2 DEF Counts, Works
    <3> QED BY <1>1, <3>3 DEF Counts, Works
  <2> QED BY <2>4, <2>5
<1>19. ASSUME ~excused' PROVE Faithful' /\ Kept
  <2>1. Faithful BY <1>1, <1>19 DEF ConversionInv
  <2>2. \A u \in Units : ReadableIn(dev', u, length') <=> ReadableIn(dev, u, length)
    BY <1>1, <1>3, <2>1, WriteReads
  <2>3. Window' = Window BY <1>1, <1>9 DEF Window
  <2>4. \A u \in Units \ Window' : ReadableIn(dev', u, length') => ReadableIn(dev', u, SavedLength')
    BY <1>1, <1>3, <1>7, <1>9, <2>1, <2>2, <2>3, WindowKept
  <2>5. CurrentLength = length /\ CurrentLength' = length' BY <1>2 DEF CurrentLength
  <2>6. \A u \in Units : Readable(u)' <=> Readable(u)
    <3>1. \A u : Readable(u) <=> ReadableIn(dev, u, length) BY <2>5, ReadableIs
    <3>2. \A u : Readable(u)' <=> ReadableIn(dev', u, length') BY <2>5 DEF Readable, ReadableIn
    <3> QED BY <2>2, <3>1, <3>2
  <2>7. pc' \notin {"write", "writeBackup"} /\ (losses' = 0 => losses = 0) BY <1>1
  <2> QED BY <2>1, <2>4, <2>6, <2>7 DEF Faithful, Kept
<1> QED BY <1>12, <1>13, <1>15, <1>16, <1>17, <1>18, <1>19 DEF ConversionInv, Kept

LEMMA StepWriteFails == ASSUME ConversionInv, WriteFails PROVE ConversionInv' /\ Kept
<1>1. /\ pc = "write" /\ pc' = "closing" /\ CountFailure /\ result' = "error" /\ buffer' = <<>>
      /\ UNCHANGED <<count, mode, resumed, wipe, cancel, ui, length, flag, dist, pause, changed, losses, found>>
  BY DEF WriteFails, Fails, wizard
<1>2. Loaded /\ Loaded' BY <1>1 DEF Loaded
<1>3. Types /\ Control /\ Layout /\ mode \in {"encrypt", "decrypt"} /\ Remaining > 0
  BY <1>1, <1>2 DEF ConversionInv, Control
<1>4. PICK torn \in Torn(Moved, wipe /\ mode = "encrypt") :
        \/ mode = "encrypt" /\ dev' = Undone(torn) /\ UNCHANGED excused
        \/ Chunk <= O /\ dev' = torn /\ UNCHANGED excused
        \/ dev' = torn /\ excused' = TRUE
  BY DEF WriteFails, UndoWorks
<1>5. Landed(dev') BY <1>3, <1>4, ChunkLands
<1>6. /\ dev' \in [Positions -> Contents]
      /\ \A p \in Positions : AtHome(p, dev'[p])
      /\ dev'[BackupAt] = dev[BackupAt]
      /\ Opens(dev'[0]) => dev'[0] = dev[0]
      /\ Marks => /\ \A p \in Positions : dev'[p].kind \in {"plain", "cipher"} /\ dev'[p].mark => dev'[p].of = 0
                  /\ dev'[0].kind = "plain" => (dev'[0].mark <=> ~found.visible)
                  /\ dev'[O].kind = "cipher" => dev'[O] = dev[O] \/ (dev'[O].mark <=> found.visible)
  BY <1>1, <1>3, <1>5, LandedKeeps
<1>7. SavedLength' = SavedLength BY <1>6 DEF SavedLength
<1>8. used \in UsedTypes BY <1>3 DEF Types, UsedTypes
<1>9. used' \in UsedTypes /\ used'.starts = used.starts /\ used'.crashes = used.crashes BY <1>1, <1>8, UsedIs
<1>10. Types'
  <2>1. Pending = 0 /\ Pending' = 0 BY <1>1 DEF Pending, Begins
  <2>2. pc' \in Labels BY <1>1 DEF Labels
  <2>3. excused' \in BOOLEAN BY <1>3, <1>4 DEF Types
  <2> QED BY <1>1, <1>3, <1>6, <1>9, <2>1, <2>2, <2>3 DEF Types, UsedTypes
<1>11. Control' BY <1>1, <1>2, <1>3 DEF Control, Begins
<1>12. ui \notin {"encrypted", "decrypted"} BY <1>1 DEF ConversionInv, Told
<1>13. Told' BY <1>1, <1>12 DEF Told
<1>14. Layout'
  <2>1. BufferHolds' BY <1>1 DEF BufferHolds
  <2>2. Opens(dev'[BackupAt]) /\ ~dev'[BackupAt].mark => dev'[BackupAt].of = N BY <1>3, <1>6 DEF Layout
  <2>3. length' = IF mode' = "encrypt" THEN SavedLength' + dist' ELSE SavedLength' - dist'
    BY <1>1, <1>2, <1>3, <1>7 DEF Layout
  <2>4. Opens(dev'[PrimaryAt]) => SavedLength' = N /\ length' = N
    BY <1>1, <1>2, <1>3, <1>6, <1>7, Places DEF Layout
  <2> QED BY <1>1, <1>6, <2>1, <2>2, <2>3, <2>4 DEF Layout
<1>15. Finish' BY <1>1, <1>12 DEF Finish
<1>16. Marks' /\ (~found'.uncounted => Counts')
  <2>1. Marks /\ (~found.uncounted => Counts) BY DEF ConversionInv
  <2>2. ASSUME SavedLength' = N \/ length' = N, dev'[O].kind = "cipher" PROVE dev'[O].mark <=> found'.visible
    <3>1. dev[O].kind = "cipher" => (dev[O].mark <=> found.visible) BY <1>1, <1>2, <1>7, <2>1, <2>2 DEF Marks
    <3> QED BY <1>1, <1>6, <2>1, <2>2, <3>1
  <2>3. Marks' BY <1>1, <1>6, <1>12, <2>1, <2>2 DEF Marks, Works
  <2>4. ASSUME ~found'.uncounted PROVE Counts'
    <3>1. Counts BY <1>1, <2>1, <2>4
    <3>2. ~(mode = "encrypt" /\ length = N) BY <1>3, Sizes DEF Remaining
    <3>3. count > 0 BY <1>1, <3>1, <3>2 DEF Counts, Works
    <3> QED BY <1>1, <3>3 DEF Counts, Works
  <2> QED BY <2>3, <2>4
<1>17. ASSUME ~excused' PROVE Faithful' /\ Kept
  <2>1. Faithful BY <1>4, <1>17 DEF ConversionInv
  <2>2. \A u \in Units : ReadableIn(dev', u, length) <=> ReadableIn(dev, u, length)
    BY <1>1, <1>3, <1>4, <1>17, <2>1, FailureReads
  <2>3. Window' = Window BY <1>1, <1>7 DEF Window
  <2>4. \A u \in Units \ Window' : ReadableIn(dev', u, length') => ReadableIn(dev', u, SavedLength')
    BY <1>1, <1>3, <1>5, <1>7, <2>1, <2>2, <2>3, WindowKept
  <2>5. CurrentLength = length /\ CurrentLength' = length BY <1>1, <1>2 DEF CurrentLength
  <2>6. \A u \in Units : Readable(u)' <=> Readable(u)
    <3>1. \A u : Readable(u) <=> ReadableIn(dev, u, length) BY <2>5, ReadableIs
    <3>2. \A u : Readable(u)' <=> ReadableIn(dev', u, length) BY <2>5 DEF Readable, ReadableIn
    <3> QED BY <2>2, <3>1, <3>2
  <2>7. pc' \notin {"write", "writeBackup"} /\ (losses' = 0 => losses = 0) BY <1>1
  <2> QED BY <2>1, <2>4, <2>6, <2>7 DEF Faithful, Kept
<1> QED BY <1>10, <1>11, <1>13, <1>14, <1>15, <1>16, <1>17 DEF ConversionInv, Kept

(***************************************************************************)
(* The header at the end is saved.                                          *)
(***************************************************************************)
LEMMA HeaderSaved ==
  ASSUME Types, Layout, dev' = [dev EXCEPT ![BackupAt] = Header(length, TRUE)]
  PROVE  /\ dev' \in [Positions -> Contents]
         /\ dev'[BackupAt] = Header(length, TRUE) /\ Opens(dev'[BackupAt])
         /\ dev'[BackupAt].mark /\ dev'[BackupAt].of = length
         /\ \A p \in Positions : p # BackupAt => dev'[p] = dev[p]
         /\ \A p \in Positions : AtHome(p, dev'[p])
         /\ \A p \in Positions : dev'[p].kind \in {"plain", "cipher"} => dev'[p] = dev[p]
         /\ dev'[0] = dev[0] /\ dev'[PrimaryAt] = dev[PrimaryAt] /\ (Exposed' <=> Exposed)
         /\ SavedLength' = length
         /\ \A u \in Units : \A l : ReadableIn(dev', u, l) <=> ReadableIn(dev, u, l)
<1>1. length \in 0 .. N /\ dev \in [Positions -> Contents] BY DEF Types
<1>2. /\ Header(length, TRUE) \in Contents /\ Header(length, TRUE).kind = "header"
      /\ Header(length, TRUE).of = length /\ Header(length, TRUE).mark
  BY <1>1, Made
<1>3. BackupAt \in Positions /\ BackupAt # 0 /\ 0 \in Positions /\ PrimaryAt = 0 BY Places
<1>4. dev' \in [Positions -> Contents] BY <1>1, <1>2
<1>5. dev'[BackupAt] = Header(length, TRUE) BY <1>1, <1>3
<1>6. \A p \in Positions : p # BackupAt => dev'[p] = dev[p] BY <1>1
<1>7. Opens(dev'[BackupAt]) /\ dev'[BackupAt].mark /\ dev'[BackupAt].of = length BY <1>2, <1>5 DEF Opens
<1>8. \A p \in Positions : AtHome(p, dev'[p]) BY <1>2, <1>5, <1>6 DEF AtHome, Layout
<1>9. \A p \in Positions : dev'[p].kind \in {"plain", "cipher"} => dev'[p] = dev[p] BY <1>2, <1>5, <1>6
<1>10. dev'[0] = dev[0] BY <1>3, <1>6
<1>11. Exposed' <=> Exposed BY <1>10 DEF Exposed
<1>12. SavedLength' = length BY <1>7 DEF SavedLength
<1>13. \A u \in Units : dev'[u] = dev[u] /\ dev'[u + O] = dev[u + O]
  <2>1. \A u \in Units : u \in Positions /\ u + O \in Positions /\ u # BackupAt /\ u + O # BackupAt
    BY Places, Sizes
  <2> QED BY <1>6, <2>1
<1>14. \A u \in Units : \A l : ReadableIn(dev', u, l) <=> ReadableIn(dev, u, l) BY <1>13 DEF ReadableIn
<1> QED BY <1>3, <1>4, <1>5, <1>6, <1>7, <1>8, <1>9, <1>10, <1>11, <1>12, <1>14

LEMMA StepUpdate == ASSUME ConversionInv, IntervalUpdate \/ FinalUpdate PROVE ConversionInv' /\ Kept
<1>1. /\ pc \in {"update", "final"}
      /\ UNCHANGED <<count, mode, resumed, wipe, cancel, ui, length, buffer, pause, changed>>
      /\ UNCHANGED <<losses, excused, found>>
      /\ \/ /\ FastVolumeHeaderUpdate /\ dist' = 0 /\ UNCHANGED <<used, result>>
            /\ pc' = IF pc = "update" THEN "poll" ELSE IF pause THEN "pause" ELSE "finish"
         \/ Fails("closing") /\ UNCHANGED <<dev, flag, dist>>
  BY DEF IntervalUpdate, FinalUpdate, UpdateHeader, wizard
<1>2. Loaded /\ pc \in Works BY <1>1 DEF Loaded, Works
<1>3. Types /\ Layout /\ mode \in {"encrypt", "decrypt"} BY <1>2 DEF ConversionInv, Control
<1>4. Remaining' = Remaining BY <1>1, ChunkKept
<1>5. ASSUME Fails("closing"), UNCHANGED <<dev, flag, dist>> PROVE ConversionInv' /\ Kept
  <2>1. pc' = "closing" /\ CountFailure /\ result' = "error" BY <1>5 DEF Fails
  <2>2. Loaded' BY <2>1 DEF Loaded
  <2>3. Control' BY <1>1, <1>2, <1>4, <1>5, <2>1, <2>2 DEF ConversionInv, Control, Begins
  <2>4. pause' \in BOOLEAN /\ changed' \in BOOLEAN BY <1>1, <1>3 DEF Types
  <2>5. pc' \notin Works /\ pc \notin {"write", "closing"} /\ pc' \notin {"write", "finish", "unregister", "zero"}
    BY <1>1, <2>1 DEF Works
  <2> QED BY <1>1, <1>2, <1>5, <2>1, <2>2, <2>3, <2>4, <2>5, LoadedAside
<1>6. ASSUME FastVolumeHeaderUpdate, dist' = 0, UNCHANGED <<used, result>>,
             pc' = IF pc = "update" THEN "poll" ELSE IF pause THEN "pause" ELSE "finish"
      PROVE  ConversionInv' /\ Kept
  <2>1. dev' = [dev EXCEPT ![BackupAt] = Header(length, TRUE)] /\ flag' = TRUE BY <1>6 DEF FastVolumeHeaderUpdate
  <2>2. /\ dev' \in [Positions -> Contents]
        /\ dev'[BackupAt] = Header(length, TRUE) /\ Opens(dev'[BackupAt])
        /\ dev'[BackupAt].mark /\ dev'[BackupAt].of = length
        /\ \A p \in Positions : AtHome(p, dev'[p])
        /\ \A p \in Positions : dev'[p].kind \in {"plain", "cipher"} => dev'[p] = dev[p]
        /\ dev'[0] = dev[0] /\ dev'[PrimaryAt] = dev[PrimaryAt] /\ (Exposed' <=> Exposed)
        /\ SavedLength' = length
        /\ \A u \in Units : \A l : ReadableIn(dev', u, l) <=> ReadableIn(dev, u, l)
    BY <1>3, <2>1, HeaderSaved
  <2>3. pc' \in {"poll", "pause", "finish"} /\ pc' \in Works /\ Loaded' BY <1>6 DEF Works, Loaded
  <2>4. length \in 0 .. N BY <1>3 DEF Types
  <2>5. pc' = "finish" => Remaining = 0 BY <1>1, <1>6 DEF ConversionInv, Control
  <2>6. Types'
    <3>1. Pending = 0 /\ Pending' = 0 BY <1>1, <2>3 DEF Pending, Begins
    <3>2. pc' \in Labels /\ flag' \in BOOLEAN BY <2>1, <2>3 DEF Labels
    <3>3. dist' \in 0 .. Interval BY <1>6, Sizes
    <3> QED BY <1>1, <1>3, <1>6, <2>2, <3>1, <3>2, <3>3 DEF Types
  <2>7. Control'
    <3>1. WholeChunks'
      <4>1. dist' = 0 * ChunkSize BY <1>6, Sizes
      <4> QED BY <4>1 DEF WholeChunks
    <3>2. dist' < Interval BY <1>6, Sizes
    <3> QED BY <1>1, <1>3, <1>4, <1>6, <2>3, <2>5, <3>1, <3>2 DEF Control, Begins
  <2>8. ui \notin {"encrypted", "decrypted"} BY <1>1 DEF ConversionInv, Told
  <2>9. Told' BY <1>1, <2>8 DEF Told
  <2>10. Layout'
    <3>1. BufferHolds' BY <1>1, <1>3, <2>3 DEF Layout, BufferHolds
    <3>2. Opens(dev'[PrimaryAt]) => SavedLength' = N /\ length' = N
      BY <1>1, <1>2, <1>3, <2>2 DEF Layout
    <3>3. length' = IF mode' = "encrypt" THEN SavedLength' + dist' ELSE SavedLength' - dist'
      BY <1>1, <1>6, <2>2, <2>4
    <3> QED BY <2>2, <2>3, <3>1, <3>2, <3>3 DEF Layout
  <2>11. Finish'
    <3>1. pc' = "finish" /\ mode = "encrypt" => length = N BY <2>4, <2>5, Sizes DEF Remaining
    <3> QED BY <1>1, <2>2, <2>3, <2>8, <3>1 DEF Finish
  <2>12. Marks' /\ (~found'.uncounted => Counts')
    <3>1. Marks /\ (~found.uncounted => Counts) BY DEF ConversionInv
    <3>2. SavedLength' = N \/ (Loaded' /\ length' = N) => Loaded /\ length = N BY <1>1, <1>2, <2>2
    <3>3. Marks' BY <1>1, <1>2, <2>2, <2>3, <2>8, <3>1, <3>2, MarksKept
    <3>4. ASSUME ~found'.uncounted PROVE Counts'
      <4>1. Counts BY <1>1, <3>1, <3>4
      <4>2. count > 0 \/ (mode = "encrypt" /\ length = N) BY <1>2, <4>1 DEF Counts
      <4> QED BY <1>1, <2>2, <2>3, <2>4, <4>2, Sizes DEF Counts
    <3> QED BY <3>3, <3>4
  <2>13. ASSUME ~excused' PROVE Faithful' /\ Kept
    <3>1. Faithful BY <1>1, <2>13 DEF ConversionInv
    <3>2. CurrentLength = length /\ CurrentLength' = length BY <1>1, <1>2, <2>3 DEF CurrentLength
    <3>3. \A u \in Units : Readable(u)' <=> Readable(u)
      <4>1. \A u : Readable(u) <=> ReadableIn(dev, u, length) BY <3>2, ReadableIs
      <4>2. \A u : Readable(u)' <=> ReadableIn(dev', u, length) BY <3>2 DEF Readable, ReadableIn
      <4> QED BY <2>2, <4>1, <4>2
    <3>4. \A u \in Units \ Window' : ReadableIn(dev', u, length') => ReadableIn(dev', u, SavedLength')
      BY <1>1, <2>2
    <3>5. losses' = 0 => losses = 0 BY <1>1
    <3> QED BY <2>3, <3>1, <3>3, <3>4, <3>5 DEF Faithful, Kept
  <2> QED BY <2>6, <2>7, <2>9, <2>10, <2>11, <2>12, <2>13 DEF ConversionInv, Kept
<1> QED BY <1>1, <1>5, <1>6

LEMMA StepClose == ASSUME ConversionInv, Close PROVE ConversionInv' /\ Kept
<1>1. /\ pc = "closing" /\ pc' = "end"
      /\ UNCHANGED <<count, mode, resumed, wipe, cancel, ui, length, dist, buffer, pause, changed, result>>
      /\ UNCHANGED <<losses, found>>
      /\ \/ changed /\ FastVolumeHeaderUpdate /\ UNCHANGED <<used, excused>>
         \/ /\ changed /\ CountFailure /\ UNCHANGED <<dev, flag>>
            /\ excused' = (excused \/ dev[BackupAt] # Header(length, TRUE))
         \/ ~changed /\ UNCHANGED <<dev, flag, used, excused>>
  BY DEF Close, wizard
<1>2. Loaded /\ ~Loaded' /\ pc' \notin Works /\ pc' \notin Begins /\ pc' \notin {"open", "idle"}
  BY <1>1 DEF Loaded, Works, Begins
<1>3. Types /\ Layout /\ Told /\ Finish BY DEF ConversionInv
<1>4. length \in 0 .. N /\ SavedLength \in 0 .. N BY <1>3, SavedIs DEF Types
<1>5. Pending = 0 /\ Pending' = 0 BY <1>1 DEF Pending, Begins
<1>6. pc' \in Labels BY <1>1 DEF Labels
<1>7. Control' BY <1>1, <1>2 DEF Control
<1>8. Told' BY <1>1, <1>3 DEF Told
<1>9. CASE changed /\ FastVolumeHeaderUpdate /\ UNCHANGED <<used, excused>>
  <2>1. dev' = [dev EXCEPT ![BackupAt] = Header(length, TRUE)] /\ flag' = TRUE BY <1>9 DEF FastVolumeHeaderUpdate
  <2>2. /\ dev' \in [Positions -> Contents]
        /\ dev'[BackupAt] = Header(length, TRUE) /\ Opens(dev'[BackupAt])
        /\ dev'[BackupAt].mark /\ dev'[BackupAt].of = length
        /\ \A p \in Positions : AtHome(p, dev'[p])
        /\ \A p \in Positions : dev'[p].kind \in {"plain", "cipher"} => dev'[p] = dev[p]
        /\ dev'[0] = dev[0] /\ dev'[PrimaryAt] = dev[PrimaryAt] /\ (Exposed' <=> Exposed)
        /\ SavedLength' = length
        /\ \A u \in Units : \A l : ReadableIn(dev', u, l) <=> ReadableIn(dev, u, l)
    BY <1>3, <2>1, HeaderSaved
  <2>3. Types'
    <3>1. flag' \in BOOLEAN BY <2>1
    <3> QED BY <1>1, <1>3, <1>5, <1>6, <1>9, <2>2, <3>1 DEF Types
  <2>4. Layout'
    <3>1. BufferHolds' BY <1>1, <1>3 DEF Layout, BufferHolds
    <3>2. Opens(dev'[PrimaryAt]) => SavedLength' = N BY <1>2, <1>3, <2>2 DEF Layout
    <3> QED BY <1>1, <1>2, <2>2, <3>1, <3>2 DEF Layout
  <2>5. ui # "decrypted" /\ (ui = "encrypted" => length = N) BY <1>1, <1>3, <1>9 DEF Told
  <2>6. Finish'
    <3>1. \A p \in 0 .. O - 1 : p \in Positions BY Places, Sizes
    <3>2. HeadersSaved => HeadersSaved' BY <2>2, <3>1 DEF HeadersSaved
    <3> QED BY <1>1, <1>3, <2>2, <2>5, <3>2 DEF Finish
  <2>7. Marks' /\ (~found'.uncounted => Counts')
    <3>1. Marks /\ (~found.uncounted => Counts) BY DEF ConversionInv
    <3>2. Marks' BY <1>1, <1>2, <2>2, <2>5, <3>1, MarksKept
    <3>3. ASSUME ~found'.uncounted PROVE Counts'
      <4>1. Counts BY <1>1, <3>1, <3>3
      <4>2. count > 0 \/ length = IF mode = "encrypt" THEN N ELSE 0 BY <1>1, <4>1 DEF Counts
      <4> QED BY <1>1, <1>2, <2>2, <4>2, Sizes DEF Counts
    <3> QED BY <3>2, <3>3
  <2>8. ASSUME ~excused' PROVE Faithful' /\ Kept
    <3>1. Faithful BY <1>9, <2>8 DEF ConversionInv
    <3>2. CurrentLength = length /\ CurrentLength' = length
      <4>1. CurrentLength' = SavedLength' BY <1>2 DEF CurrentLength, SavedLength
      <4> QED BY <1>2, <2>2, <4>1 DEF CurrentLength
    <3>3. \A u \in Units : Readable(u)' <=> Readable(u)
      <4>1. \A u : Readable(u) <=> ReadableIn(dev, u, length) BY <3>2, ReadableIs
      <4>2. \A u : Readable(u)' <=> ReadableIn(dev', u, length) BY <3>2 DEF Readable, ReadableIn
      <4> QED BY <2>2, <4>1, <4>2
    <3> QED BY <1>1, <1>2, <3>1, <3>3 DEF Faithful, Kept
  <2> QED BY <1>7, <1>8, <2>3, <2>4, <2>6, <2>7, <2>8 DEF ConversionInv, Kept
<1>10. ASSUME UNCHANGED <<dev, flag>>, UNCHANGED used \/ CountFailure, excused' \in BOOLEAN,
              ~excused' => ~excused /\ SavedLength = length
       PROVE  ConversionInv' /\ Kept
  <2>1. used \in UsedTypes BY <1>3 DEF Types, UsedTypes
  <2>2. used' \in UsedTypes /\ used'.starts = used.starts /\ used'.crashes = used.crashes BY <1>10, <2>1, UsedIs
  <2>3. Types' BY <1>1, <1>3, <1>5, <1>6, <1>10, <2>2 DEF Types, UsedTypes
  <2>4. Layout' BY <1>1, <1>2, <1>3, <1>10, LayoutAside
  <2>5. Finish' BY <1>1, <1>3, <1>10, FinishAside
  <2>6. Marks' /\ (~found'.uncounted => Counts')
    <3>1. Marks /\ (~found.uncounted => Counts) BY DEF ConversionInv
    <3>2. Marks' BY <1>1, <1>2, <1>10, <3>1, MarksAside
    <3>3. SavedLength' = SavedLength BY <1>10, MediumKept
    <3>4. ASSUME ~found'.uncounted PROVE Counts'
      <4>1. Counts BY <1>1, <3>1, <3>4
      <4> QED BY <1>1, <1>2, <3>3, <4>1, Sizes DEF Counts
    <3> QED BY <3>2, <3>4
  <2>7. ASSUME ~excused' PROVE Faithful' /\ Kept
    <3>1. Faithful /\ SavedLength = length BY <1>10, <2>7 DEF ConversionInv
    <3>2. CurrentLength' = CurrentLength
      <4>1. CurrentLength' = SavedLength' /\ CurrentLength = length BY <1>2 DEF CurrentLength, SavedLength
      <4>2. SavedLength' = SavedLength BY <1>10, MediumKept
      <4> QED BY <3>1, <4>1, <4>2
    <3>3. \A u \in Units : Readable(u)' <=> Readable(u) BY <1>10, <3>2 DEF Readable
    <3> QED BY <1>1, <1>2, <3>1, <3>3 DEF Faithful, Kept
  <2> QED BY <1>7, <1>8, <2>3, <2>4, <2>5, <2>6, <2>7 DEF ConversionInv, Kept
<1>11. CASE changed /\ CountFailure /\ UNCHANGED <<dev, flag>>
            /\ excused' = (excused \/ dev[BackupAt] # Header(length, TRUE))
  <2>1. dev[BackupAt] = Header(length, TRUE) => SavedLength = length BY DEF Header, SavedLength, Opens
  <2>2. excused' \in BOOLEAN BY <1>3, <1>11 DEF Types
  <2> QED BY <1>10, <1>11, <2>1, <2>2
<1>12. CASE ~changed /\ UNCHANGED <<dev, flag, used, excused>>
  <2>1. dist = 0 BY <1>2, <1>12 DEF ConversionInv, Control
  <2>2. SavedLength = length BY <1>2, <1>3, <1>4, <2>1 DEF Layout
  <2>3. excused' \in BOOLEAN BY <1>3, <1>12 DEF Types
  <2> QED BY <1>10, <1>12, <2>2, <2>3
<1> QED BY <1>1, <1>9, <1>11, <1>12

LEMMA StepConceal == ASSUME ConversionInv, Conceal PROVE ConversionInv' /\ Kept
<1>1. /\ pc = "conceal"
      /\ UNCHANGED <<count, mode, resumed, wipe, cancel, ui, length, flag, dist, buffer, pause, changed>>
      /\ UNCHANGED <<losses, excused, found>>
      /\ \/ ConcealNTFS /\ pc' = "register" /\ UNCHANGED <<used, result>>
         \/ pc' = "end" /\ CountFailure /\ result' = "error" /\ UNCHANGED dev
  BY DEF Conceal, Fails, wizard
<1>2. ~Loaded /\ ~Loaded' /\ pc' \in {"register", "end"} BY <1>1 DEF Loaded
<1>3. Types /\ Layout /\ mode = "encrypt" BY <1>1 DEF ConversionInv, Control, Begins
<1>4. used \in UsedTypes BY <1>3 DEF Types, UsedTypes
<1>5. used' \in UsedTypes /\ used'.starts = used.starts /\ used'.crashes = used.crashes BY <1>1, <1>4, UsedIs
<1>6. Exposed BY <1>1, <1>3 DEF Layout
<1>7. dev[0] = Plain(0) /\ dev[0] \in Contents /\ 0 \in Positions /\ BackupAt \in Positions /\ BackupAt # 0 /\ PrimaryAt = 0
  BY <1>3, <1>6, SavedIs, Places DEF Exposed
<1>8. /\ dev' \in [Positions -> Contents]
      /\ \A p \in Positions : p # 0 => dev'[p] = dev[p]
      /\ dev'[0].kind = "plain" /\ dev'[0].of = 0
      /\ pc' = "register" => dev'[0].mark
  <2>1. CASE UNCHANGED dev
    <3>1. dev'[0] = Plain(0) /\ Plain(0).kind = "plain" /\ Plain(0).of = 0 BY <1>7, <2>1, Made, Places
    <3>2. pc' = "register" => ConcealNTFS BY <1>1
    <3>3. Plain(0).mark = FALSE BY DEF Plain
    <3>4. Toggle(dev[0]).mark
      <4>1. dev[0].kind = "plain" /\ dev[0].mark = FALSE BY <1>7, <3>1, <3>3
      <4> QED BY <1>7, <4>1, ToggleIs
    <3>5. ConcealNTFS => dev'[0] = Toggle(dev[0]) BY <1>3, <1>7 DEF ConcealNTFS, Types
    <3> QED BY <1>3, <2>1, <3>1, <3>2, <3>4, <3>5 DEF Types
  <2>2. CASE ConcealNTFS
    <3>1. Plain(0).kind = "plain" /\ Plain(0).of = 0 /\ ~Plain(0).mark BY Made, Places
    <3>2. /\ Toggle(dev[0]) \in Contents /\ Toggle(dev[0]).kind = "plain" /\ Toggle(dev[0]).of = 0
          /\ Toggle(dev[0]).mark = ~dev[0].mark
      BY <1>7, <3>1, ToggleIs
    <3>3. dev' = [dev EXCEPT ![0] = Toggle(dev[0])] BY <2>2 DEF ConcealNTFS
    <3>4. dev \in [Positions -> Contents] BY <1>3 DEF Types
    <3> QED BY <1>7, <3>1, <3>2, <3>3, <3>4
  <2> QED BY <1>1, <2>1, <2>2
<1>9. dev'[BackupAt] = dev[BackupAt] /\ SavedLength' = SavedLength BY <1>7, <1>8 DEF SavedLength
<1>10. Types'
  <2>1. Pending = 1 /\ Pending' \in {0, 1} BY <1>1 DEF Pending, Begins
  <2>2. pc' \in Labels /\ result' \in {"none", "ok", "paused", "error"} BY <1>1, <1>3 DEF Labels, Types
  <2>3. used.starts \in Nat /\ count \in Nat BY <1>3, <1>4, UsedIs, Sizes DEF Types
  <2>4. count' + Pending' <= used'.starts BY <1>1, <1>3, <1>5, <2>1, <2>3 DEF Types
  <2> QED BY <1>1, <1>3, <1>5, <1>8, <2>2, <2>4 DEF Types, UsedTypes
<1>11. Control' BY <1>1, <1>2, <1>3 DEF ConversionInv, Control, Begins
<1>12. ui \notin {"encrypted", "decrypted"} BY <1>1 DEF ConversionInv, Told
<1>13. Told' BY <1>1, <1>12 DEF Told
<1>14. Layout'
  <2>1. BufferHolds' BY <1>1, <1>2, <1>3 DEF Layout, BufferHolds
  <2>2. \A p \in Positions : AtHome(p, dev'[p]) BY <1>3, <1>8 DEF Layout, AtHome
  <2>3. ~Opens(dev'[PrimaryAt]) BY <1>7, <1>8 DEF Opens
  <2>4. Opens(dev'[BackupAt]) /\ ~dev'[BackupAt].mark => dev'[BackupAt].of = N BY <1>3, <1>9 DEF Layout
  <2> QED BY <1>2, <2>1, <2>2, <2>3, <2>4 DEF Layout
<1>15. Finish' BY <1>1, <1>2, <1>12 DEF Finish
<1>16. Marks' /\ (~found'.uncounted => Counts')
  <2>1. Marks /\ (~found.uncounted => Counts) BY DEF ConversionInv
  <2>2. SavedLength = 0 BY <1>1, <2>1 DEF Marks
  <2>3. \A p \in Positions : dev'[p].kind \in {"plain", "cipher"} /\ dev'[p].mark => dev'[p].of = 0
    BY <1>8, <2>1 DEF Marks
  <2>4. ~(SavedLength' > 0 \/ pc' \in Works \/ Loaded') /\ SavedLength' # N BY <1>2, <1>9, <2>2, Sizes DEF Works
  <2>5. Marks' BY <1>1, <1>2, <1>12, <2>3, <2>4 DEF Marks
  <2>6. ASSUME ~found'.uncounted PROVE Counts'
    <3>1. Counts BY <1>1, <2>1, <2>6
    <3> QED BY <1>1, <1>2, <1>3, <1>9, <2>2, <3>1 DEF Counts, Works
  <2> QED BY <2>5, <2>6
<1>17. ASSUME ~excused' PROVE Faithful' /\ Kept
  <2>1. Faithful BY <1>1, <1>17 DEF ConversionInv
  <2>2. CurrentLength = SavedLength /\ CurrentLength' = SavedLength
    BY <1>2, <1>9 DEF CurrentLength, SavedLength
  <2>3. \A p \in Positions : dev'[p].kind = dev[p].kind /\ dev'[p].of = dev[p].of
    BY <1>7, <1>8, Made, Places
  <2>4. \A u \in Units : ReadableIn(dev', u, SavedLength) <=> ReadableIn(dev, u, SavedLength)
    <3>1. \A u \in Units : u \in Positions /\ u + O \in Positions BY Places
    <3> QED BY <2>3, <3>1 DEF ReadableIn
  <2>5. \A u \in Units : Readable(u)' <=> Readable(u)
    <3>1. \A u : Readable(u) <=> ReadableIn(dev, u, SavedLength) BY <2>2, ReadableIs
    <3>2. \A u : Readable(u)' <=> ReadableIn(dev', u, SavedLength) BY <2>2 DEF Readable, ReadableIn
    <3> QED BY <2>4, <3>1, <3>2
  <2> QED BY <1>1, <1>2, <2>1, <2>5 DEF Faithful, Kept
<1> QED BY <1>10, <1>11, <1>13, <1>14, <1>15, <1>16, <1>17 DEF ConversionInv, Kept

(***************************************************************************)
(* The ends of the conversions, and the header that starts one.             *)
(***************************************************************************)

\* When there is nothing left to convert, the header knows.
LEMMA AllDone ==
  ASSUME ConversionInv, Loaded, Remaining = 0, dist = 0
  PROVE  length = (IF mode = "encrypt" THEN N ELSE 0) /\ SavedLength = length
<1>1. mode \in {"encrypt", "decrypt"} BY DEF ConversionInv, Control
<1>2. length \in 0 .. N /\ SavedLength \in 0 .. N BY SavedIs DEF ConversionInv, Types
<1>3. length = IF mode = "encrypt" THEN N ELSE 0 BY <1>1, <1>2, Sizes DEF Remaining
<1> QED BY <1>1, <1>2, <1>3, Sizes DEF ConversionInv, Layout

LEMMA StepReveal == ASSUME ConversionInv, RevealNTFS PROVE ConversionInv' /\ Kept
<1>1. /\ pc = "finish" /\ mode = "decrypt" /\ changed' = FALSE
      /\ UNCHANGED <<count, mode, resumed, wipe, cancel, ui, length, flag, dist, buffer, pause>>
      /\ UNCHANGED <<losses, excused, found>>
      /\ \/ ConcealNTFS /\ pc' = "zero" /\ UNCHANGED <<used, result>>
         \/ pc' = "closing" /\ CountFailure /\ result' = "error" /\ UNCHANGED dev
  BY DEF RevealNTFS, Fails, wizard
<1>2. Loaded /\ Loaded' /\ pc' \notin Works /\ pc \in Works BY <1>1 DEF Loaded, Works
<1>3. Types /\ Layout /\ Remaining = 0 /\ dist = 0 BY <1>1 DEF ConversionInv, Control
<1>4. length = 0 /\ SavedLength = 0 BY <1>1, <1>2, <1>3, AllDone
<1>5. Remaining' = Remaining BY <1>1, ChunkKept
<1>6. Control' BY <1>1, <1>2, <1>3, <1>5 DEF ConversionInv, Control, Begins
<1>7. CASE pc' = "closing" /\ CountFailure /\ result' = "error" /\ UNCHANGED dev
  <2>1. pause' \in BOOLEAN /\ changed' \in BOOLEAN BY <1>1, <1>3 DEF Types
  <2> QED BY <1>1, <1>2, <1>6, <1>7, <2>1, LoadedAside
<1>8. CASE ConcealNTFS /\ pc' = "zero" /\ UNCHANGED <<used, result>>
  <2>1. dev[0] \in Contents /\ 0 \in Positions /\ BackupAt \in Positions /\ BackupAt # 0 /\ PrimaryAt = 0
    BY <1>3, SavedIs, Places
  <2>2. dev[0].kind # "header" BY <1>3, <1>4, <2>1, Sizes DEF Layout, Opens
  <2>3. dev[0].kind # "cipher"
    <3>1. dev[0].kind = "cipher" => dev[0].of + O = 0 /\ dev[0].of \in Units
      BY <1>3, <2>1, ContentsAre DEF Layout, AtHome
    <3> QED BY <3>1, Sizes DEF Units
  <2>4. dev' = [dev EXCEPT ![0] = Toggle(dev[0])] BY <1>8 DEF ConcealNTFS
  <2>5. /\ dev' \in [Positions -> Contents] /\ dev'[0] = Toggle(dev[0])
        /\ \A p \in Positions : p # 0 => dev'[p] = dev[p]
    BY <1>3, <2>1, <2>4, ToggleIs DEF Types
  <2>6. Junk.kind = "junk" /\ ~Junk.mark BY Made
  <2>7. /\ dev[0].kind = "plain" => dev'[0].kind = "plain" /\ dev'[0].of = dev[0].of /\ dev'[0].mark = ~dev[0].mark
        /\ dev[0].kind # "plain" => dev'[0].kind = "junk" /\ ~dev'[0].mark
    BY <2>1, <2>3, <2>5, <2>6, ToggleIs
  <2>8. dev'[BackupAt] = dev[BackupAt] /\ SavedLength' = SavedLength BY <2>1, <2>5 DEF SavedLength
  <2>9. Types'
    <3>1. Pending = 0 /\ Pending' = 0 BY <1>1, <1>8 DEF Pending, Begins
    <3>2. pc' \in Labels /\ changed' \in BOOLEAN BY <1>1, <1>8 DEF Labels
    <3> QED BY <1>1, <1>3, <1>8, <2>5, <3>1, <3>2 DEF Types
  <2>10. ui \notin {"encrypted", "decrypted"} BY <1>1 DEF ConversionInv, Told
  <2>11. Told' BY <1>1, <2>10 DEF Told
  <2>12. Layout'
    <3>1. BufferHolds' BY <1>1, <1>3, <1>8 DEF Layout, BufferHolds
    <3>2. AtHome(0, dev[0]) BY <1>3, <2>1 DEF Layout
    <3>3. AtHome(0, dev'[0]) BY <2>7, <3>2 DEF AtHome
    <3>4. \A p \in Positions : AtHome(p, dev'[p]) BY <1>3, <2>5, <3>3 DEF Layout
    <3>5. ~Opens(dev'[PrimaryAt]) BY <2>1, <2>7 DEF Opens
    <3>6. Opens(dev'[BackupAt]) /\ ~dev'[BackupAt].mark => dev'[BackupAt].of = N BY <1>3, <2>8 DEF Layout
    <3>7. length' = IF mode' = "encrypt" THEN SavedLength' + dist' ELSE SavedLength' - dist'
      BY <1>1, <1>3, <1>4, <2>8
    <3> QED BY <1>8, <3>1, <3>4, <3>5, <3>6, <3>7 DEF Layout
  <2>13. Finish' BY <1>1, <1>8, <2>10 DEF Finish
  <2>14. Marks' /\ (~found'.uncounted => Counts')
    <3>1. Marks /\ (~found.uncounted => Counts) BY DEF ConversionInv
    <3>2. dev'[0].kind = "plain" => (dev'[0].mark <=> found'.visible)
      <4>1. dev[0].kind = "plain" => (dev[0].mark <=> ~found.visible) BY <1>2, <3>1 DEF Marks
      <4>2. dev'[0].kind = "plain" => dev[0].kind = "plain" /\ dev'[0].mark = ~dev[0].mark BY <2>7
      <4>3. found.visible \in BOOLEAN /\ found' = found BY <1>1, <1>3 DEF Types
      <4> QED BY <4>1, <4>2, <4>3
    <3>3. \A q \in Positions : dev'[q].kind \in {"plain", "cipher"} /\ dev'[q].mark => dev'[q].of = 0
      <4>1. dev'[0].kind \in {"plain", "cipher"} => dev'[0].of = 0
        <5>1. dev'[0].kind \in {"plain", "cipher"} => dev[0].kind = "plain" /\ dev'[0].of = dev[0].of BY <2>7
        <5> QED BY <1>3, <2>1, <5>1 DEF Layout, AtHome
      <4> QED BY <2>5, <3>1, <4>1 DEF Marks
    <3>4. SavedLength' = 0 /\ length' = 0 /\ 0 # N BY <1>1, <1>4, <2>8, Sizes
    <3>5. Marks' BY <1>1, <1>2, <1>8, <2>10, <3>2, <3>3, <3>4 DEF Marks
    <3>6. ASSUME ~found'.uncounted PROVE Counts'
      <4>1. Counts BY <1>1, <3>1, <3>6
      <4> QED BY <1>1, <1>2, <1>4, <1>8, <2>8, <4>1, Sizes DEF Counts
    <3> QED BY <3>5, <3>6
  <2>15. ASSUME ~excused' PROVE Faithful' /\ Kept
    <3>1. Faithful BY <1>1, <2>15 DEF ConversionInv
    <3>2. CurrentLength = 0 /\ CurrentLength' = 0 BY <1>1, <1>2, <1>4 DEF CurrentLength
    <3>3. \A u \in Units : ReadableIn(dev', u, 0) <=> ReadableIn(dev, u, 0)
      <4>1. \A u \in Units : u \in Positions /\ u < N /\ u \in Nat BY Places
      <4>2. \A u \in Units : ~(u >= N - 0) BY <4>1, Sizes
      <4> QED BY <2>5, <2>7, <4>1, <4>2 DEF ReadableIn
    <3>4. \A u \in Units : Readable(u)' <=> Readable(u)
      <4>1. \A u : Readable(u) <=> ReadableIn(dev, u, 0) BY <3>2, ReadableIs
      <4>2. \A u : Readable(u)' <=> ReadableIn(dev', u, 0) BY <3>2 DEF Readable, ReadableIn
      <4> QED BY <3>3, <4>1, <4>2
    <3>5. \A u \in Units \ Window' : ReadableIn(dev', u, length') => ReadableIn(dev', u, SavedLength')
      BY <1>1, <1>4, <2>8
    <3> QED BY <1>1, <1>8, <3>1, <3>4, <3>5 DEF Faithful, Kept
  <2> QED BY <1>6, <2>9, <2>11, <2>12, <2>13, <2>14, <2>15 DEF ConversionInv, Kept
<1> QED BY <1>1, <1>7, <1>8

\* What the write of the primary header group may leave.
LEMMA PrimaryLands ==
  ASSUME Types, Layout, Loaded, length = N, SavedLength = N,
         NEW d, d = Overwritten(PrimaryGroup) \/ d \in Torn(PrimaryGroup, FALSE)
  PROVE  /\ d \in [Positions -> Contents]
         /\ \A p \in Positions : d[p] = dev[p] \/ (p < O /\ d[p] = IF p = 0 THEN Header(N, TRUE) ELSE Junk)
         /\ d = Overwritten(PrimaryGroup) =>
              \A p \in 0 .. O - 1 : d[p] = IF p = 0 THEN Header(N, TRUE) ELSE Junk
         /\ \A p \in Positions : AtHome(p, d[p])
         /\ d[BackupAt] = dev[BackupAt]
         /\ \A p \in Positions : d[p].kind \in {"plain", "cipher"} => d[p] = dev[p]
         /\ \A u \in Units : ReadableIn(d, u, N) <=> ReadableIn(dev, u, N)
<1>1. /\ Header(N, TRUE) \in Contents /\ Header(N, TRUE).kind = "header"
      /\ Junk \in Contents /\ Junk.kind = "junk"
  <2>1. N \in 0 .. N BY Sizes
  <2> QED BY <2>1, Made
<1>2. PrimaryGroup = [p \in 0 .. O - 1 |-> IF p = 0 THEN Header(N, TRUE) ELSE Junk]
  BY DEF PrimaryGroup, PrimaryAt
<1>3. DOMAIN PrimaryGroup = 0 .. O - 1 BY <1>2
<1>4. d = [p \in Positions |-> d[p]] BY TornIs DEF Overwritten
<1>5. \A p \in Positions : d[p] = dev[p] \/ (p \in 0 .. O - 1 /\ d[p] = PrimaryGroup[p])
  <2>1. CASE d = Overwritten(PrimaryGroup) BY <1>3, <2>1 DEF Overwritten
  <2>2. CASE d \in Torn(PrimaryGroup, FALSE)
    <3>1. \A p \in Positions :
            d[p] = dev[p] \/ (p \in DOMAIN PrimaryGroup /\ (d[p] = PrimaryGroup[p] \/ (FALSE /\ d[p] = Junk)))
      BY <2>2, TornIs
    <3> QED BY <1>3, <3>1
  <2> QED BY <2>1, <2>2
<1>6. \A p \in Positions : d[p] = dev[p] \/ (p < O /\ d[p] = IF p = 0 THEN Header(N, TRUE) ELSE Junk)
  <2>1. \A p \in 0 .. O - 1 : p < O /\ PrimaryGroup[p] = IF p = 0 THEN Header(N, TRUE) ELSE Junk
    BY <1>2, Sizes
  <2> QED BY <1>5, <2>1
<1>7. d = Overwritten(PrimaryGroup) => \A p \in 0 .. O - 1 : d[p] = IF p = 0 THEN Header(N, TRUE) ELSE Junk
  <2>1. \A p \in 0 .. O - 1 : p \in Positions BY Places, Sizes
  <2> QED BY <1>2, <1>3, <2>1 DEF Overwritten
<1>8. \A p \in Positions : dev[p] \in Contents /\ AtHome(p, dev[p]) BY SavedIs DEF Layout
<1>9. ASSUME NEW p \in Positions PROVE d[p] \in Contents /\ AtHome(p, d[p])
  <2>1. CASE d[p] = dev[p] BY <1>8, <2>1
  <2>2. CASE d[p] = IF p = 0 THEN Header(N, TRUE) ELSE Junk BY <1>1, <2>2, Places DEF AtHome
  <2> QED BY <1>6, <2>1, <2>2
<1>10. \A p \in Positions : d[p].kind \in {"plain", "cipher"} => d[p] = dev[p] BY <1>1, <1>6
<1>11. \A p \in Positions : p >= O => d[p] = dev[p]
  <2>1. \A p \in Positions : p \in Nat BY Sizes DEF Positions
  <2>2. \A p \in Positions : p >= O => ~(p < O) BY <2>1, Sizes
  <2> QED BY <1>6, <2>2
<1>12. BackupAt \in Positions /\ BackupAt >= O BY Places, Sizes
<1>13. \A u \in Units : u >= N - N /\ u + O \in Positions /\ u + O >= O
  BY Places, Sizes
<1>14. \A u \in Units : ReadableIn(d, u, N) <=> ReadableIn(dev, u, N) BY <1>11, <1>13 DEF ReadableIn
<1>15. d \in [Positions -> Contents] BY <1>4, <1>9
<1> QED BY <1>6, <1>7, <1>9, <1>10, <1>11, <1>12, <1>14, <1>15

LEMMA StepPrimary == ASSUME ConversionInv, WritePrimaryHeader PROVE ConversionInv' /\ Kept
<1>1. /\ pc = "finish" /\ mode = "encrypt"
      /\ UNCHANGED <<count, mode, resumed, wipe, cancel, ui, length, flag, dist, buffer, pause, changed>>
      /\ UNCHANGED <<losses, excused, found>>
      /\ \/ dev' = Overwritten(PrimaryGroup) /\ pc' = "unregister" /\ UNCHANGED <<used, result>>
         \/ pc' = "closing" /\ CountFailure /\ result' = "error" /\ dev' \in Torn(PrimaryGroup, FALSE)
  BY DEF WritePrimaryHeader, Fails, wizard
<1>2. Loaded /\ Loaded' /\ pc' \notin Works /\ pc \in Works /\ pc' \in {"unregister", "closing"}
  BY <1>1 DEF Loaded, Works
<1>3. Types /\ Layout /\ Remaining = 0 /\ dist = 0 BY <1>1 DEF ConversionInv, Control
<1>4. length = N /\ SavedLength = N BY <1>1, <1>2, <1>3, AllDone
<1>5. Remaining' = Remaining BY <1>1, ChunkKept
<1>6. used \in UsedTypes BY <1>3 DEF Types, UsedTypes
<1>7. used' \in UsedTypes /\ used'.starts = used.starts /\ used'.crashes = used.crashes BY <1>1, <1>6, UsedIs
<1>8. /\ dev' \in [Positions -> Contents]
      /\ pc' = "unregister" => \A p \in 0 .. O - 1 : dev'[p] = IF p = 0 THEN Header(N, TRUE) ELSE Junk
      /\ \A p \in Positions : AtHome(p, dev'[p])
      /\ dev'[BackupAt] = dev[BackupAt]
      /\ \A p \in Positions : dev'[p].kind \in {"plain", "cipher"} => dev'[p] = dev[p]
      /\ \A u \in Units : ReadableIn(dev', u, N) <=> ReadableIn(dev, u, N)
  BY <1>1, <1>2, <1>3, <1>4, PrimaryLands
<1>9. SavedLength' = SavedLength BY <1>8 DEF SavedLength
<1>10. Types'
  <2>1. Pending = 0 /\ Pending' = 0 BY <1>1 DEF Pending, Begins
  <2>2. pc' \in Labels /\ result' \in {"none", "ok", "paused", "error"} BY <1>1, <1>3 DEF Labels, Types
  <2> QED BY <1>1, <1>3, <1>7, <1>8, <2>1, <2>2 DEF Types, UsedTypes
<1>11. Control' BY <1>1, <1>2, <1>3, <1>5 DEF ConversionInv, Control, Begins
<1>12. ui \notin {"encrypted", "decrypted"} BY <1>1 DEF ConversionInv, Told
<1>13. Told' BY <1>1, <1>12 DEF Told
<1>14. Layout'
  <2>1. BufferHolds' BY <1>1, <1>3 DEF Layout, BufferHolds
  <2>2. Opens(dev'[BackupAt]) /\ ~dev'[BackupAt].mark => dev'[BackupAt].of = N BY <1>3, <1>8 DEF Layout
  <2>3. length' = IF mode' = "encrypt" THEN SavedLength' + dist' ELSE SavedLength' - dist'
    BY <1>1, <1>3, <1>4, <1>9, Sizes
  <2> QED BY <1>1, <1>2, <1>4, <1>8, <1>9, <2>1, <2>2, <2>3 DEF Layout
<1>15. Finish'
  <2>1. dev[BackupAt] = Header(N, TRUE) BY <1>1 DEF ConversionInv, Finish
  <2>2. pc' = "unregister" => HeadersSaved'
    <3>1. Header(N, TRUE).kind = "header" /\ Junk.kind = "junk" BY Made DEF Header
    <3>2. 0 \in 0 .. O - 1 /\ PrimaryAt = 0 BY Sizes DEF PrimaryAt
    <3> QED BY <1>8, <3>1, <3>2 DEF HeadersSaved
  <2> QED BY <1>1, <1>2, <1>8, <1>12, <2>1, <2>2 DEF Finish
<1>16. Marks' /\ (~found'.uncounted => Counts')
  <2>1. Marks /\ (~found.uncounted => Counts) BY DEF ConversionInv
  <2>2. pc' \notin {"write", "verify", "conceal"} /\ ui' # "decrypted" /\ mode' # "decrypt" BY <1>1, <1>2, <1>12
  <2>3. Marks' BY <1>1, <1>2, <1>4, <1>8, <2>1, <2>2, MarksKept
  <2>4. ASSUME ~found'.uncounted PROVE Counts'
    <3>1. Counts BY <1>1, <2>1, <2>4
    <3> QED BY <1>1, <1>2, <1>4, <1>9, <3>1, Sizes DEF Counts
  <2> QED BY <2>3, <2>4
<1>17. ASSUME ~excused' PROVE Faithful' /\ Kept
  <2>1. Faithful BY <1>1, <1>17 DEF ConversionInv
  <2>2. CurrentLength = N /\ CurrentLength' = N BY <1>1, <1>2, <1>4 DEF CurrentLength
  <2>3. \A u \in Units : Readable(u)' <=> Readable(u)
    <3>1. \A u : Readable(u) <=> ReadableIn(dev, u, N) BY <2>2, ReadableIs
    <3>2. \A u : Readable(u)' <=> ReadableIn(dev', u, N) BY <2>2 DEF Readable, ReadableIn
    <3> QED BY <1>8, <3>1, <3>2
  <2>4. \A u \in Units \ Window' : ReadableIn(dev', u, length') => ReadableIn(dev', u, SavedLength')
    BY <1>1, <1>4, <1>9
  <2> QED BY <1>1, <2>1, <2>3, <2>4 DEF Faithful, Kept
<1> QED BY <1>10, <1>11, <1>13, <1>14, <1>15, <1>16, <1>17 DEF ConversionInv, Kept

\* What the zeroing of the rest of the medium may leave.
LEMMA ZeroedIs ==
  ASSUME Types, Layout, NEW last \in N - 1 .. N + 2 * O - 1, NEW d, d = Zeroed(last)
  PROVE  /\ d \in [Positions -> Contents]
         /\ \A p \in Positions : AtHome(p, d[p])
         /\ d[0] = dev[0] /\ (d[BackupAt] = dev[BackupAt] \/ d[BackupAt] = Zeros)
         /\ \A p \in Positions : d[p].kind \in {"plain", "cipher"} => d[p] = dev[p]
         /\ \A p \in Positions : p < N => d[p] = dev[p]
         /\ last = N + 2 * O - 1 => \A p \in Positions : p >= N => d[p] = Zeros
         /\ \A u \in Units : ReadableIn(d, u, 0) <=> ReadableIn(dev, u, 0)
<1>1. Zeros \in Contents /\ Zeros.kind = "zeros" BY Made
<1>2. d = [p \in Positions |-> IF p \in N .. last THEN Zeros ELSE dev[p]] BY DEF Zeroed
<1>3. \A p \in Positions : d[p] = IF p \in N .. last THEN Zeros ELSE dev[p] BY <1>2
<1>4. \A p \in Positions : d[p] = dev[p] \/ d[p] = Zeros BY <1>3
<1>5. \A p \in Positions : dev[p] \in Contents /\ AtHome(p, dev[p]) BY SavedIs DEF Layout
<1>6. \A p \in Positions : d[p] \in Contents /\ AtHome(p, d[p]) BY <1>1, <1>4, <1>5 DEF AtHome
<1>7. d \in [Positions -> Contents] BY <1>2, <1>6
<1>8. \A p \in Positions : p < N => d[p] = dev[p]
  <2>1. \A p \in Positions : p < N => p \notin N .. last BY Sizes DEF Positions
  <2> QED BY <1>3, <2>1
<1>9. 0 \in Positions /\ 0 < N /\ BackupAt \in Positions BY Places, Sizes
<1>10. last = N + 2 * O - 1 => \A p \in Positions : p >= N => d[p] = Zeros
  <2>1. last = N + 2 * O - 1 => \A p \in Positions : p >= N => p \in N .. last BY Sizes DEF Positions
  <2> QED BY <1>3, <2>1
<1>11. \A u \in Units : ReadableIn(d, u, 0) <=> ReadableIn(dev, u, 0)
  <2>1. \A u \in Units : u \in Positions /\ u < N /\ ~(u >= N - 0) BY Places, Sizes
  <2> QED BY <1>8, <2>1 DEF ReadableIn
<1>12. \A p \in Positions : d[p].kind \in {"plain", "cipher"} => d[p] = dev[p] BY <1>1, <1>4
<1> QED BY <1>4, <1>6, <1>7, <1>8, <1>9, <1>10, <1>11, <1>12

LEMMA StepZero == ASSUME ConversionInv, ZeroRest PROVE ConversionInv' /\ Kept
<1>1. /\ pc = "zero"
      /\ UNCHANGED <<count, mode, resumed, wipe, cancel, ui, length, flag, dist, buffer, pause, changed>>
      /\ UNCHANGED <<losses, excused, found>>
      /\ \/ dev' = Zeroed(N + 2 * O - 1) /\ pc' = "unregister" /\ UNCHANGED <<used, result>>
         \/ /\ pc' = "closing" /\ CountFailure /\ result' = "error"
            /\ \E last \in N - 1 .. N + 2 * O - 2 : dev' = Zeroed(last)
  BY DEF ZeroRest, Fails, wizard
<1>2. Loaded /\ Loaded' /\ pc' \notin Works /\ pc' \in {"unregister", "closing"} BY <1>1 DEF Loaded, Works
<1>3. Types /\ Layout /\ Remaining = 0 /\ dist = 0 /\ mode = "decrypt" BY <1>1 DEF ConversionInv, Control
<1>4. length = 0 /\ SavedLength = 0 BY <1>1, <1>2, <1>3, AllDone
<1>5. Remaining' = Remaining BY <1>1, ChunkKept
<1>6. used \in UsedTypes BY <1>3 DEF Types, UsedTypes
<1>7. used' \in UsedTypes /\ used'.starts = used.starts /\ used'.crashes = used.crashes BY <1>1, <1>6, UsedIs
<1>8. PICK last \in N - 1 .. N + 2 * O - 1 :
        dev' = Zeroed(last) /\ (pc' = "unregister" => last = N + 2 * O - 1)
  <2>1. CASE dev' = Zeroed(N + 2 * O - 1)
    <3>1. N + 2 * O - 1 \in N - 1 .. N + 2 * O - 1 BY Sizes
    <3> QED BY <2>1, <3>1
  <2>2. ASSUME NEW last \in N - 1 .. N + 2 * O - 2, dev' = Zeroed(last), pc' = "closing"
        PROVE  \E x \in N - 1 .. N + 2 * O - 1 :
                 dev' = Zeroed(x) /\ (pc' = "unregister" => x = N + 2 * O - 1)
    <3>1. last \in N - 1 .. N + 2 * O - 1 BY Sizes
    <3> QED BY <2>2, <3>1
  <2> QED BY <1>1, <2>1, <2>2
<1>9. /\ dev' \in [Positions -> Contents]
      /\ \A p \in Positions : AtHome(p, dev'[p])
      /\ dev'[0] = dev[0] /\ (dev'[BackupAt] = dev[BackupAt] \/ dev'[BackupAt] = Zeros)
      /\ \A p \in Positions : dev'[p].kind \in {"plain", "cipher"} => dev'[p] = dev[p]
      /\ pc' = "unregister" => \A p \in Positions : p >= N => dev'[p] = Zeros
      /\ \A u \in Units : ReadableIn(dev', u, 0) <=> ReadableIn(dev, u, 0)
  BY <1>3, <1>8, ZeroedIs
<1>10. Zeros.kind = "zeros" BY Made
<1>11. Opens(dev'[BackupAt]) => dev'[BackupAt] = dev[BackupAt] BY <1>9, <1>10 DEF Opens
<1>12. SavedLength' = 0 BY <1>4, <1>11 DEF SavedLength
<1>13. Types'
  <2>1. Pending = 0 /\ Pending' = 0 BY <1>1 DEF Pending, Begins
  <2>2. pc' \in Labels /\ result' \in {"none", "ok", "paused", "error"} BY <1>1, <1>3 DEF Labels, Types
  <2> QED BY <1>1, <1>3, <1>7, <1>9, <2>1, <2>2 DEF Types, UsedTypes
<1>14. Control' BY <1>1, <1>2, <1>3, <1>5 DEF ConversionInv, Control, Begins
<1>15. ui \notin {"encrypted", "decrypted"} BY <1>1 DEF ConversionInv, Told
<1>16. Told' BY <1>1, <1>15 DEF Told
<1>17. Layout'
  <2>1. BufferHolds' BY <1>1, <1>3 DEF Layout, BufferHolds
  <2>2. Opens(dev'[BackupAt]) /\ ~dev'[BackupAt].mark => dev'[BackupAt].of = N BY <1>3, <1>11 DEF Layout
  <2>3. length' = IF mode' = "encrypt" THEN SavedLength' + dist' ELSE SavedLength' - dist'
    BY <1>1, <1>3, <1>4, <1>12
  <2>4. ~Opens(dev'[PrimaryAt])
    <3>1. ~Opens(dev[PrimaryAt]) BY <1>3, <1>4, Sizes DEF Layout
    <3> QED BY <1>9, <3>1, Places
  <2> QED BY <1>1, <1>9, <2>1, <2>2, <2>3, <2>4 DEF Layout
<1>18. Finish'
  <2>1. pc' = "unregister" => RestZeroed' BY <1>9, <1>10 DEF RestZeroed
  <2> QED BY <1>1, <1>2, <1>3, <1>15, <2>1 DEF Finish
<1>19. Marks' /\ (~found'.uncounted => Counts')
  <2>1. Marks /\ (~found.uncounted => Counts) BY DEF ConversionInv
  <2>2. SavedLength' = 0 /\ length' = 0 /\ 0 # N /\ pc' \notin {"write", "verify", "conceal"}
    BY <1>1, <1>2, <1>4, <1>12, Sizes
  <2>3. Marks' BY <1>1, <1>2, <1>3, <1>9, <2>1, <2>2, MarksKept
  <2>4. ASSUME ~found'.uncounted PROVE Counts'
    <3>1. Counts BY <1>1, <2>1, <2>4
    <3>2. count > 0 BY <1>1, <1>3, <3>1 DEF Counts
    <3> QED BY <1>1, <3>2 DEF Counts
  <2> QED BY <2>3, <2>4
<1>20. ASSUME ~excused' PROVE Faithful' /\ Kept
  <2>1. Faithful BY <1>1, <1>20 DEF ConversionInv
  <2>2. CurrentLength = 0 /\ CurrentLength' = 0 BY <1>1, <1>2, <1>4 DEF CurrentLength
  <2>3. \A u \in Units : Readable(u)' <=> Readable(u)
    <3>1. \A u : Readable(u) <=> ReadableIn(dev, u, 0) BY <2>2, ReadableIs
    <3>2. \A u : Readable(u)' <=> ReadableIn(dev', u, 0) BY <2>2 DEF Readable, ReadableIn
    <3> QED BY <1>9, <3>1, <3>2
  <2>4. \A u \in Units \ Window' : ReadableIn(dev', u, length') => ReadableIn(dev', u, SavedLength')
    BY <1>1, <1>4, <1>12
  <2> QED BY <1>1, <2>1, <2>3, <2>4 DEF Faithful, Kept
<1> QED BY <1>13, <1>14, <1>16, <1>17, <1>18, <1>19, <1>20 DEF ConversionInv, Kept

\* What the write of the header group at the end may leave.
BackupGroup == [p \in BackupAt .. BackupAt + O - 1 |-> IF p = BackupAt THEN Header(0, TRUE) ELSE Junk]

LEMMA BackupLands ==
  ASSUME Types, Layout, NEW d, d = Overwritten(BackupGroup) \/ d \in Torn(BackupGroup, FALSE)
  PROVE  /\ d \in [Positions -> Contents]
         /\ \A p \in Positions : AtHome(p, d[p])
         /\ d[0] = dev[0] /\ (d[BackupAt] = dev[BackupAt] \/ d[BackupAt] = Header(0, TRUE))
         /\ d = Overwritten(BackupGroup) => d[BackupAt] = Header(0, TRUE)
         /\ \A p \in Positions : d[p].kind \in {"plain", "cipher"} => d[p] = dev[p]
         /\ \A u \in Units : ReadableIn(d, u, 0) <=> ReadableIn(dev, u, 0)
<1>1. /\ Header(0, TRUE) \in Contents /\ Header(0, TRUE).kind = "header"
      /\ Junk \in Contents /\ Junk.kind = "junk"
  <2>1. 0 \in 0 .. N BY Sizes
  <2> QED BY <2>1, Made
<1>2. DOMAIN BackupGroup = BackupAt .. BackupAt + O - 1 BY DEF BackupGroup
<1>3. d = [p \in Positions |-> d[p]] BY TornIs DEF Overwritten
<1>4. \A p \in Positions : d[p] = dev[p] \/ (p \in BackupAt .. BackupAt + O - 1 /\ d[p] = BackupGroup[p])
  <2>1. CASE d = Overwritten(BackupGroup) BY <1>2, <2>1 DEF Overwritten
  <2>2. CASE d \in Torn(BackupGroup, FALSE)
    <3>1. \A p \in Positions :
            d[p] = dev[p] \/ (p \in DOMAIN BackupGroup /\ (d[p] = BackupGroup[p] \/ (FALSE /\ d[p] = Junk)))
      BY <2>2, TornIs
    <3> QED BY <1>2, <3>1
  <2> QED BY <2>1, <2>2
<1>5. \A p \in Positions :
        d[p] = dev[p] \/ (p >= BackupAt /\ d[p] = IF p = BackupAt THEN Header(0, TRUE) ELSE Junk)
  <2>1. \A p \in BackupAt .. BackupAt + O - 1 :
          p >= BackupAt /\ BackupGroup[p] = IF p = BackupAt THEN Header(0, TRUE) ELSE Junk
    BY Places, Sizes DEF BackupGroup
  <2> QED BY <1>4, <2>1
<1>6. \A p \in Positions : dev[p] \in Contents /\ AtHome(p, dev[p]) BY SavedIs DEF Layout
<1>7. ASSUME NEW p \in Positions PROVE d[p] \in Contents /\ AtHome(p, d[p])
  <2>1. CASE d[p] = dev[p] BY <1>6, <2>1
  <2>2. CASE d[p] = IF p = BackupAt THEN Header(0, TRUE) ELSE Junk BY <1>1, <2>2 DEF AtHome
  <2> QED BY <1>5, <2>1, <2>2
<1>8. d \in [Positions -> Contents] BY <1>3, <1>7
<1>9. \A p \in Positions : d[p].kind \in {"plain", "cipher"} => d[p] = dev[p] BY <1>1, <1>5
<1>10. \A p \in Positions : p < BackupAt => d[p] = dev[p]
  <2>1. \A p \in Positions : p < BackupAt => ~(p >= BackupAt) BY Places, Sizes DEF Positions
  <2> QED BY <1>5, <2>1
<1>11. 0 \in Positions /\ 0 < BackupAt /\ BackupAt \in Positions BY Places, Sizes
<1>12. \A u \in Units : ReadableIn(d, u, 0) <=> ReadableIn(dev, u, 0)
  <2>1. \A u \in Units : u \in Positions /\ u < BackupAt /\ ~(u >= N - 0) BY Places, Sizes
  <2> QED BY <1>10, <2>1 DEF ReadableIn
<1>13. d = Overwritten(BackupGroup) => d[BackupAt] = Header(0, TRUE)
  <2>1. BackupAt \in BackupAt .. BackupAt + O - 1 BY Places, Sizes
  <2>2. BackupGroup[BackupAt] = Header(0, TRUE) BY <2>1 DEF BackupGroup
  <2> QED BY <1>2, <1>11, <2>1, <2>2 DEF Overwritten
<1> QED BY <1>5, <1>7, <1>8, <1>9, <1>10, <1>11, <1>12, <1>13

LEMMA StepBackup == ASSUME ConversionInv, WriteBackupHeader PROVE ConversionInv' /\ Kept
<1>1. /\ pc = "writeBackup" /\ pc' \in {"verify", "end"} /\ result' \in {result, "error"}
      /\ UNCHANGED <<count, mode, resumed, wipe, cancel, ui, length, flag, dist, buffer, pause, changed>>
      /\ UNCHANGED <<losses, excused, found>> /\ (UNCHANGED used \/ CountFailure)
      /\ dev' = Overwritten(BackupGroup) \/ dev' \in Torn(BackupGroup, FALSE)
      /\ pc' = "verify" => dev' = Overwritten(BackupGroup)
  BY DEF WriteBackupHeader, Fails, wizard, BackupGroup
<1>2. ~Loaded /\ ~Loaded' BY <1>1 DEF Loaded
<1>3. Types /\ Layout /\ mode = "encrypt" BY <1>1 DEF ConversionInv, Control, Begins
<1>4. used \in UsedTypes BY <1>3 DEF Types, UsedTypes
<1>5. used' \in UsedTypes /\ used'.starts = used.starts /\ used'.crashes = used.crashes BY <1>1, <1>4, UsedIs
<1>6. /\ dev' \in [Positions -> Contents]
      /\ \A p \in Positions : AtHome(p, dev'[p])
      /\ dev'[0] = dev[0] /\ (dev'[BackupAt] = dev[BackupAt] \/ dev'[BackupAt] = Header(0, TRUE))
      /\ pc' = "verify" => dev'[BackupAt] = Header(0, TRUE)
      /\ \A p \in Positions : dev'[p].kind \in {"plain", "cipher"} => dev'[p] = dev[p]
      /\ \A u \in Units : ReadableIn(dev', u, 0) <=> ReadableIn(dev, u, 0)
  BY <1>1, <1>3, BackupLands
<1>7. Header(0, TRUE).mark /\ Header(0, TRUE).of = 0 BY DEF Header
<1>8. SavedLength' \in {SavedLength, 0} /\ (pc' = "verify" => SavedLength' = 0) BY <1>6, <1>7 DEF SavedLength
<1>9. Exposed /\ Exposed' BY <1>1, <1>3, <1>6 DEF Layout, Exposed
<1>10. Types'
  <2>1. Pending = 1 /\ Pending' \in {0, 1} BY <1>1 DEF Pending, Begins
  <2>2. pc' \in Labels /\ result' \in {"none", "ok", "paused", "error"} BY <1>1, <1>3 DEF Labels, Types
  <2>3. used.starts \in Nat /\ count \in Nat BY <1>3, <1>4, UsedIs, Sizes DEF Types
  <2>4. count' + Pending' <= used'.starts BY <1>1, <1>3, <1>5, <2>1, <2>3 DEF Types
  <2> QED BY <1>1, <1>3, <1>5, <1>6, <2>2, <2>4 DEF Types, UsedTypes
<1>11. Control' BY <1>1, <1>2, <1>3 DEF ConversionInv, Control, Begins
<1>12. ui \notin {"encrypted", "decrypted"} BY <1>1 DEF ConversionInv, Told
<1>13. Told' BY <1>1, <1>12 DEF Told
<1>14. Layout'
  <2>1. BufferHolds' BY <1>1, <1>3 DEF Layout, BufferHolds
  <2>2. Opens(dev'[BackupAt]) /\ ~dev'[BackupAt].mark => dev'[BackupAt].of = N BY <1>3, <1>6, <1>7 DEF Layout
  <2>3. ~Opens(dev'[PrimaryAt])
    <3>1. dev'[0].kind = "plain" BY <1>9, Made, Places DEF Exposed
    <3> QED BY <3>1, Places DEF Opens
  <2> QED BY <1>2, <1>6, <1>9, <2>1, <2>2, <2>3 DEF Layout
<1>15. Finish' BY <1>1, <1>12 DEF Finish
<1>16. Marks' /\ (~found'.uncounted => Counts')
  <2>1. Marks /\ (~found.uncounted => Counts) BY DEF ConversionInv
  <2>2. pc' \notin Works \cup {"write", "conceal", "zero", "unregister"} /\ ui' # "decrypted"
    BY <1>1, <1>12 DEF Works
  <2>3. SavedLength' > 0 => SavedLength > 0 BY <1>8, Sizes
  <2>4. SavedLength' = N => SavedLength = N BY <1>8, Sizes
  <2>5. Marks' BY <1>1, <1>2, <1>6, <1>8, <2>1, <2>2, <2>3, <2>4, MarksKept
  <2>6. ASSUME ~found'.uncounted PROVE Counts'
    <3>1. Counts BY <1>1, <2>1, <2>6
    <3>2. SavedLength' \in 1 .. N - 1 => count' > 0 BY <1>1, <1>8, <3>1, Sizes DEF Counts
    <3> QED BY <1>1, <1>3, <2>2, <3>2 DEF Counts
  <2> QED BY <2>5, <2>6
<1>17. ASSUME ~excused' PROVE Faithful' /\ Kept
  <2>1. Faithful BY <1>1, <1>17 DEF ConversionInv
  <2>3. SavedLength = 0 /\ SavedLength' = 0 BY <1>1, <1>8, <2>1 DEF Faithful
  <2>4. CurrentLength = 0 /\ CurrentLength' = 0 BY <1>2, <2>3 DEF CurrentLength, SavedLength
  <2>5. \A u \in Units : Readable(u)' <=> Readable(u)
    <3>1. \A u : Readable(u) <=> ReadableIn(dev, u, 0) BY <2>4, ReadableIs
    <3>2. \A u : Readable(u)' <=> ReadableIn(dev', u, 0) BY <2>4 DEF Readable, ReadableIn
    <3> QED BY <1>6, <3>1, <3>2
  <2> QED BY <1>1, <1>2, <2>1, <2>5 DEF Faithful, Kept
<1> QED BY <1>10, <1>11, <1>13, <1>14, <1>15, <1>16, <1>17 DEF ConversionInv, Kept

(***************************************************************************)
(* Power losses and crashes.                                                *)
(***************************************************************************)
\* Whatever write was on its way: the header says what it said or that nothing
\* is encrypted, and outside the window no unit is lost.
LEMMA CrashLands ==
  ASSUME ConversionInv, dev' \in InFlight
  PROVE  /\ dev' \in [Positions -> Contents]
         /\ \A p \in Positions : AtHome(p, dev'[p])
         /\ Opens(dev'[BackupAt]) => dev'[BackupAt] = dev[BackupAt] \/ dev'[BackupAt] = Header(0, TRUE)
         /\ SavedLength' \in {SavedLength, 0}
         /\ Opens(dev'[PrimaryAt]) => SavedLength' = N
         /\ \A p \in Positions : dev'[p].kind \in {"plain", "cipher"} /\ dev'[p].mark => dev'[p].of = 0
         /\ SavedLength' > 0 /\ dev'[0].kind = "plain" => (dev'[0].mark <=> ~found.visible)
         /\ SavedLength' = N /\ dev'[O].kind = "cipher" => (dev'[O].mark <=> found.visible)
         /\ ~excused => \A u \in Units \ Window :
              ReadableIn(dev, u, CurrentLength) => ReadableIn(dev', u, SavedLength')
<1>1. Types /\ Control /\ Layout BY DEF ConversionInv
<1>2. CurrentLength = IF Loaded THEN length ELSE SavedLength BY <1>1, SavedIs
<1>3. BackupAt \in Positions /\ 0 \in Positions /\ PrimaryAt = 0 BY Places
<1>4. Marks BY DEF ConversionInv
<1>5. ~excused => Faithful BY DEF ConversionInv
<1>6. CASE pc = "write"
  <2>1. Loaded BY <1>6 DEF Loaded
  <2>2. mode \in {"encrypt", "decrypt"} /\ Remaining > 0 BY <1>1, <1>6, <2>1 DEF Control
  <2>3. dev' \in Torn(Moved, wipe /\ mode = "encrypt") BY <1>6 DEF InFlight
  <2>4. Landed(dev') BY <1>1, <2>2, <2>3, ChunkLands
  <2>5. /\ dev' \in [Positions -> Contents]
        /\ \A p \in Positions : AtHome(p, dev'[p])
        /\ dev'[BackupAt] = dev[BackupAt]
        /\ Opens(dev'[0]) => dev'[0] = dev[0]
        /\ \A p \in Positions : dev'[p].kind \in {"plain", "cipher"} /\ dev'[p].mark => dev'[p].of = 0
        /\ dev'[0].kind = "plain" => (dev'[0].mark <=> ~found.visible)
        /\ dev'[O].kind = "cipher" => dev'[O] = dev[O] \/ (dev'[O].mark <=> found.visible)
    BY <1>1, <1>4, <1>6, <2>4, LandedKeeps
  <2>6. SavedLength' = SavedLength BY <2>5 DEF SavedLength
  <2>7. Opens(dev'[PrimaryAt]) => SavedLength' = N BY <1>1, <1>3, <2>5, <2>6 DEF Layout
  <2>8. SavedLength' = N /\ dev'[O].kind = "cipher" => (dev'[O].mark <=> found.visible)
    <3>1. SavedLength = N /\ dev[O].kind = "cipher" => (dev[O].mark <=> found.visible) BY <1>4 DEF Marks
    <3> QED BY <2>5, <2>6, <3>1
  <2>9. ~excused => \A u \in Units \ Window : ReadableIn(dev, u, length) => ReadableIn(dev', u, SavedLength)
    BY <1>1, <1>5, <1>6, <2>4, WindowKept
  <2> QED BY <1>2, <2>1, <2>5, <2>6, <2>7, <2>8, <2>9
<1>7. CASE pc = "writeBackup"
  <2>1. ~Loaded BY <1>7 DEF Loaded
  <2>2. dev' \in Torn(BackupGroup, FALSE) BY <1>7 DEF InFlight, BackupGroup
  <2>3. /\ dev' \in [Positions -> Contents]
        /\ \A p \in Positions : AtHome(p, dev'[p])
        /\ dev'[0] = dev[0] /\ (dev'[BackupAt] = dev[BackupAt] \/ dev'[BackupAt] = Header(0, TRUE))
        /\ \A p \in Positions : dev'[p].kind \in {"plain", "cipher"} => dev'[p] = dev[p]
        /\ \A u \in Units : ReadableIn(dev', u, 0) <=> ReadableIn(dev, u, 0)
    BY <1>1, <2>2, BackupLands
  <2>4. Header(0, TRUE).of = 0 BY DEF Header
  <2>5. SavedLength' \in {SavedLength, 0} BY <2>3, <2>4 DEF SavedLength
  <2>6. Exposed BY <1>1, <1>7 DEF Layout
  <2>7. ~Opens(dev'[PrimaryAt])
    <3>1. dev'[0].kind = "plain" BY <2>3, <2>6, Made, Places DEF Exposed
    <3> QED BY <1>3, <3>1 DEF Opens
  <2>8. ~excused => SavedLength = 0 /\ SavedLength' = 0 BY <1>5, <1>7, <2>5 DEF Faithful
  <2> QED BY <1>2, <1>4, <2>1, <2>3, <2>5, <2>7, <2>8, MarksOnMedium
<1>8. CASE pc = "finish" /\ mode = "encrypt"
  <2>1. Loaded BY <1>8 DEF Loaded
  <2>2. Remaining = 0 /\ dist = 0 BY <1>1, <1>8 DEF Control
  <2>3. length = N /\ SavedLength = N BY <1>8, <2>1, <2>2, AllDone
  <2>4. dev' \in Torn(PrimaryGroup, FALSE) BY <1>8 DEF InFlight
  <2>5. /\ dev' \in [Positions -> Contents]
        /\ \A p \in Positions : AtHome(p, dev'[p])
        /\ dev'[BackupAt] = dev[BackupAt]
        /\ \A p \in Positions : dev'[p].kind \in {"plain", "cipher"} => dev'[p] = dev[p]
        /\ \A u \in Units : ReadableIn(dev', u, N) <=> ReadableIn(dev, u, N)
    BY <1>1, <2>1, <2>3, <2>4, PrimaryLands
  <2>6. SavedLength' = SavedLength BY <2>5 DEF SavedLength
  <2> QED BY <1>2, <1>4, <2>1, <2>3, <2>5, <2>6, MarksOnMedium
<1>9. CASE pc = "zero"
  <2>1. Loaded BY <1>9 DEF Loaded
  <2>2. Remaining = 0 /\ dist = 0 /\ mode = "decrypt" BY <1>1, <1>9 DEF Control
  <2>3. length = 0 /\ SavedLength = 0 BY <2>1, <2>2, AllDone
  <2>4. dev' \in {Zeroed(last) : last \in N - 1 .. N + 2 * O - 1} BY <1>9 DEF InFlight
  <2>5. PICK last \in N - 1 .. N + 2 * O - 1 : dev' = Zeroed(last) BY <2>4
  <2>6. /\ dev' \in [Positions -> Contents]
        /\ \A p \in Positions : AtHome(p, dev'[p])
        /\ dev'[0] = dev[0] /\ (dev'[BackupAt] = dev[BackupAt] \/ dev'[BackupAt] = Zeros)
        /\ \A p \in Positions : dev'[p].kind \in {"plain", "cipher"} => dev'[p] = dev[p]
        /\ \A u \in Units : ReadableIn(dev', u, 0) <=> ReadableIn(dev, u, 0)
    BY <1>1, <2>5, ZeroedIs
  <2>7. Opens(dev'[BackupAt]) => dev'[BackupAt] = dev[BackupAt] BY <2>6, Made DEF Opens
  <2>8. SavedLength' = 0 BY <2>3, <2>7 DEF SavedLength
  <2>9. ~Opens(dev'[PrimaryAt])
    <3>1. ~Opens(dev[PrimaryAt]) BY <1>1, <2>3, Sizes DEF Layout
    <3> QED BY <1>3, <2>6, <3>1
  <2> QED BY <1>2, <1>4, <2>1, <2>3, <2>6, <2>7, <2>8, <2>9, MarksOnMedium
<1>10. CASE pc \notin {"write", "writeBackup", "zero"} /\ ~(pc = "finish" /\ mode = "encrypt")
  <2>1. dev' = dev BY <1>10 DEF InFlight
  <2>2. SavedLength' = SavedLength /\ (Exposed' <=> Exposed) BY <2>1, MediumKept
  <2>3. \A p \in Positions : AtHome(p, dev'[p]) BY <1>1, <2>1 DEF Layout
  <2>4. Opens(dev'[PrimaryAt]) => SavedLength' = N BY <1>1, <2>1, <2>2 DEF Layout
  <2>6. ~excused => \A u \in Units \ Window :
          ReadableIn(dev, u, CurrentLength) => ReadableIn(dev', u, SavedLength')
    BY <1>2, <1>5, <2>1, <2>2 DEF Faithful
  <2>7. dev' \in [Positions -> Contents] BY <1>1, <2>1 DEF Types
  <2> QED BY <1>4, <2>1, <2>2, <2>3, <2>4, <2>6, <2>7, MarksOnMedium
<1> QED BY <1>6, <1>7, <1>8, <1>9, <1>10

LEMMA StepCrash == ASSUME ConversionInv, Crash PROVE ConversionInv'
<1>1. /\ used.crashes < MaxCrashes /\ used' = [used EXCEPT !.crashes = @ + 1] /\ losses' = losses + 1
      /\ dev' \in InFlight
      /\ mode' = "none" /\ resumed' = FALSE /\ wipe' = FALSE /\ cancel' = FALSE /\ ui' = "none"
      /\ pc' = "idle" /\ length' = 0 /\ flag' = FALSE /\ dist' = 0 /\ buffer' = <<>>
      /\ pause' = FALSE /\ changed' = FALSE /\ result' = "none"
      /\ UNCHANGED <<count, excused, found>>
  BY DEF Crash
<1>2. ~Loaded' BY <1>1 DEF Loaded
<1>3. Types /\ Layout BY DEF ConversionInv
<1>4. /\ dev' \in [Positions -> Contents]
      /\ \A p \in Positions : AtHome(p, dev'[p])
      /\ Opens(dev'[BackupAt]) => dev'[BackupAt] = dev[BackupAt] \/ dev'[BackupAt] = Header(0, TRUE)
      /\ SavedLength' \in {SavedLength, 0}
      /\ Opens(dev'[PrimaryAt]) => SavedLength' = N
      /\ \A p \in Positions : dev'[p].kind \in {"plain", "cipher"} /\ dev'[p].mark => dev'[p].of = 0
      /\ SavedLength' > 0 /\ dev'[0].kind = "plain" => (dev'[0].mark <=> ~found.visible)
      /\ SavedLength' = N /\ dev'[O].kind = "cipher" => (dev'[O].mark <=> found.visible)
  BY <1>1, CrashLands
<1>5. used \in UsedTypes /\ used.crashes \in Nat BY <1>3, UsedIs, Sizes DEF Types, UsedTypes
<1>6. used' \in UsedTypes /\ used'.starts = used.starts /\ used'.crashes = used.crashes + 1 BY <1>1, <1>5, UsedIs
<1>7. Types'
  <2>1. Pending \in {0, 1} /\ Pending' = 0 BY <1>1 DEF Pending, Begins
  <2>2. pc' \in Labels BY <1>1 DEF Labels
  <2>3. used.starts \in Nat /\ count \in Nat BY <1>3, <1>5, UsedIs, Sizes DEF Types
  <2>4. count' + Pending' <= used'.starts BY <1>1, <1>3, <1>6, <2>1, <2>3 DEF Types
  <2>5. length' \in 0 .. N /\ dist' \in 0 .. Interval BY <1>1, Sizes
  <2>6. losses' = used'.crashes BY <1>1, <1>3, <1>6 DEF Types
  <2>7. count' \in Nat /\ excused' \in BOOLEAN /\ found' \in [visible : BOOLEAN, uncounted : BOOLEAN]
    BY <1>1, <1>3 DEF Types
  <2> QED BY <1>1, <1>4, <1>6, <2>2, <2>4, <2>5, <2>6, <2>7 DEF Types, UsedTypes
<1>8. Control' BY <1>1, <1>2 DEF Control, Begins
<1>9. Told' BY <1>1 DEF Told
<1>10. Layout'
  <2>1. BufferHolds' BY <1>1 DEF BufferHolds
  <2>2. Header(0, TRUE).mark BY DEF Header
  <2>3. Opens(dev'[BackupAt]) /\ ~dev'[BackupAt].mark => dev'[BackupAt].of = N BY <1>3, <1>4, <2>2 DEF Layout
  <2> QED BY <1>1, <1>2, <1>4, <2>1, <2>3 DEF Layout
<1>11. Finish' BY <1>1 DEF Finish
<1>12. Marks' /\ (~found'.uncounted => Counts')
  <2>1. Marks' BY <1>1, <1>2, <1>4 DEF Marks, Works
  <2>2. ASSUME ~found'.uncounted PROVE Counts'
    <3>1. Counts BY <1>1, <2>2 DEF ConversionInv
    <3>2. SavedLength' \in 1 .. N - 1 => count' > 0 BY <1>1, <1>4, <3>1 DEF Counts
    <3> QED BY <1>1, <3>2 DEF Counts, Works
  <2> QED BY <2>1, <2>2
<1>13. Faithful'
  <2>1. losses' # 0 BY <1>1, <1>3, <1>5 DEF Types
  <2> QED BY <1>1, <1>2, <2>1 DEF Faithful
<1> QED BY <1>7, <1>8, <1>9, <1>10, <1>11, <1>12, <1>13 DEF ConversionInv

(***************************************************************************)
(* Every state and every step.                                              *)
(***************************************************************************)
\* Both media that a conversion can start from: plain, or a finished volume.
LEMMA InitHolds == ASSUME Init PROVE ConversionInv /\ \A u \in Units : Readable(u)
<1>1. /\ count = 0 /\ mode = "none" /\ resumed = FALSE /\ wipe = FALSE /\ cancel = FALSE
      /\ ui = "none" /\ pc = "idle"
      /\ length = 0 /\ flag = FALSE /\ dist = 0 /\ buffer = <<>> /\ pause = FALSE
      /\ changed = FALSE /\ result = "none"
      /\ used = [starts |-> 0, failures |-> 0, crashes |-> 0]
      /\ losses = 0 /\ excused = FALSE /\ found = [visible |-> FALSE, uncounted |-> FALSE]
  BY DEF Init
<1>2. /\ Junk \in Contents /\ Junk.kind = "junk" /\ ~Junk.mark
      /\ Header(N, FALSE) \in Contents /\ Header(N, FALSE).kind = "header"
      /\ Header(N, FALSE).of = N /\ ~Header(N, FALSE).mark
  <2>1. N \in 0 .. N BY Sizes
  <2> QED BY <2>1, Made
<1>3. \A u \in Units :
        /\ Plain(u) \in Contents /\ Plain(u).kind = "plain" /\ Plain(u).of = u /\ ~Plain(u).mark
        /\ Cipher(u) \in Contents /\ Cipher(u).kind = "cipher" /\ Cipher(u).of = u /\ ~Cipher(u).mark
  BY Made
<1>4. ~Loaded BY <1>1 DEF Loaded
<1>5. BackupAt \in Positions /\ BackupAt \notin Units /\ 0 \in Units /\ 0 \in Positions /\ PrimaryAt = 0
  BY Places, Sizes DEF Units
<1>6. \A u \in Units : u \in Positions /\ u + O \in Positions /\ u + O # 0 /\ u + O # BackupAt /\ u + O - O = u /\ u \in Nat /\ u < N
  BY Places, Sizes DEF Units
<1>7. /\ dev \in [Positions -> Contents]
      /\ \A p \in Positions : AtHome(p, dev[p]) /\ ~dev[p].mark
      /\ Opens(dev[BackupAt]) => dev[BackupAt].of = N
      /\ Opens(dev[PrimaryAt]) => SavedLength = N
      /\ SavedLength > 0 => dev[0].kind # "plain"
      /\ SavedLength \in {0, N} /\ \A u \in Units : ReadableIn(dev, u, SavedLength)
  <2>1. CASE dev = [p \in Positions |-> IF p \in Units THEN Plain(p) ELSE Junk]
    <3>1. \A p \in Positions : dev[p] = IF p \in Units THEN Plain(p) ELSE Junk BY <2>1
    <3>2. \A p \in Positions : dev[p] \in Contents /\ AtHome(p, dev[p]) /\ ~dev[p].mark /\ dev[p].kind # "header"
      BY <1>2, <1>3, <3>1 DEF AtHome
    <3>3. dev \in [Positions -> Contents] BY <2>1, <3>2
    <3>4. ~Opens(dev[BackupAt]) /\ ~Opens(dev[PrimaryAt]) BY <1>5, <3>2 DEF Opens
    <3>5. SavedLength = 0 BY <3>4 DEF SavedLength
    <3>6. \A u \in Units : ~(u >= N - 0) /\ dev[u] = Plain(u) BY <1>6, <3>1, Sizes
    <3>7. \A u \in Units : ReadableIn(dev, u, 0) BY <1>3, <3>6 DEF ReadableIn
    <3>8. ~(SavedLength > 0) BY <3>5
    <3> QED BY <3>2, <3>3, <3>4, <3>5, <3>7, <3>8
  <2>2. CASE dev = [p \in Positions |-> IF p \in {PrimaryAt, BackupAt} THEN Header(N, FALSE)
                                        ELSE IF p - O \in Units THEN Cipher(p - O) ELSE Junk]
    <3>1. \A p \in Positions : dev[p] = IF p \in {PrimaryAt, BackupAt} THEN Header(N, FALSE)
                                        ELSE IF p - O \in Units THEN Cipher(p - O) ELSE Junk
      BY <2>2
    <3>2. \A p \in Positions : p - O + O = p BY Sizes DEF Positions
    <3>3. ASSUME NEW p \in Positions PROVE dev[p] \in Contents /\ AtHome(p, dev[p]) /\ ~dev[p].mark
      <4>1. CASE p \in {PrimaryAt, BackupAt} BY <1>2, <3>1, <4>1 DEF AtHome
      <4>2. CASE p \notin {PrimaryAt, BackupAt} /\ p - O \in Units
        <5>1. dev[p] = Cipher(p - O) BY <3>1, <4>2
        <5> QED BY <1>3, <3>2, <4>2, <5>1 DEF AtHome
      <4>3. CASE p \notin {PrimaryAt, BackupAt} /\ p - O \notin Units BY <1>2, <3>1, <4>3 DEF AtHome
      <4> QED BY <4>1, <4>2, <4>3
    <3>4. dev \in [Positions -> Contents] BY <2>2, <3>3
    <3>5. dev[BackupAt] = Header(N, FALSE) /\ dev[0] = Header(N, FALSE) BY <1>5, <3>1
    <3>6. SavedLength = N BY <1>2, <3>5 DEF SavedLength, Opens
    <3>7. dev[0].kind # "plain" BY <1>2, <3>5
    <3>8. ASSUME NEW u \in Units PROVE dev[u + O] = Cipher(u) /\ u >= N - N
      <4> DEFINE p == u + O
      <4>1. p \in Positions /\ p \notin {PrimaryAt, BackupAt} /\ p - O = u BY Places, Sizes DEF Units
      <4> HIDE DEF p
      <4>2. dev[p] = Cipher(p - O) BY <3>1, <4>1
      <4>3. u >= N - N BY <1>6, Sizes
      <4> QED BY <4>1, <4>2, <4>3 DEF p
    <3>9. \A u \in Units : ReadableIn(dev, u, N) BY <1>3, <3>8 DEF ReadableIn
    <3>10. Opens(dev[BackupAt]) => dev[BackupAt].of = N BY <1>2, <3>5
    <3> QED BY <3>3, <3>4, <3>6, <3>7, <3>9, <3>10
  <2> QED BY <2>1, <2>2 DEF Init
<1>8. Types
  <2>6. found \in [visible : BOOLEAN, uncounted : BOOLEAN] BY <1>1
  <2>1. Pending = 0 BY <1>1 DEF Pending, Begins
  <2>2. pc \in Labels BY <1>1 DEF Labels
  <2>3. length \in 0 .. N /\ dist \in 0 .. Interval BY <1>1, Sizes
  <2>4. used \in UsedTypes /\ used.starts = 0 /\ used.crashes = 0 BY <1>1, Sizes DEF UsedTypes
  <2>5. losses = used.crashes /\ count + Pending <= used.starts BY <1>1, <2>1, <2>4
  <2> QED BY <1>1, <1>7, <2>2, <2>3, <2>4, <2>5, <2>6 DEF Types, UsedTypes
<1>9. Control BY <1>1, <1>4 DEF Control, Begins
<1>10. Told BY <1>1 DEF Told
<1>11. Layout
  <2>1. BufferHolds BY <1>1 DEF BufferHolds
  <2> QED BY <1>1, <1>4, <1>7, <2>1 DEF Layout
<1>12. Finish BY <1>1 DEF Finish
<1>13. Marks
  <2>1. \A p \in Positions : ~dev[p].mark BY <1>7
  <2>2. O \in Positions BY Places
  <2>3. ~found.visible BY <1>1
  <2> QED BY <1>1, <1>4, <1>7, <2>1, <2>2, <2>3 DEF Marks, Works
<1>14. Counts
  <2>1. ~(SavedLength \in 1 .. N - 1) BY <1>7, Sizes
  <2> QED BY <1>1, <2>1 DEF Counts, Works
<1>15. \A u \in Units : Readable(u)
  <2>1. CurrentLength = SavedLength BY <1>4 DEF CurrentLength, SavedLength
  <2> QED BY <1>7, <2>1, ReadableIs
<1>16. Faithful BY <1>1, <1>4, <1>15 DEF Faithful
<1> QED BY <1>8, <1>9, <1>10, <1>11, <1>12, <1>13, <1>14, <1>15, <1>16 DEF ConversionInv

LEMMA StepNext ==
  ASSUME ConversionInv, [Next]_vars
  PROVE  ConversionInv' /\ (Crash \/ Kept)
<1>1. CASE UserStep BY <1>1, StepLaunch, StepOutside DEF UserStep
<1>2. CASE BeginStep BY <1>2, StepBackup, StepVerify, StepConceal, StepRegister DEF BeginStep
<1>3. CASE OpenVolume \/ CannotOpenVolume BY <1>3, StepOpen, StepCannotOpen
<1>4. CASE LoopStep
  BY <1>4, StepRead, StepAlong, StepGiveUp, StepWriteChunk, StepWriteFails, StepUpdate DEF LoopStep
<1>5. CASE EndStep
  BY <1>5, StepAlong, StepPrimary, StepReveal, StepZero, StepUnregister, StepClose, StepEnd DEF EndStep
<1>6. CASE Crash BY <1>6, StepCrash
<1>7. CASE UNCHANGED vars BY <1>7, StepOutside
<1> QED BY <1>1, <1>2, <1>3, <1>4, <1>5, <1>6, <1>7 DEF Next, ThreadStep

\* What holds of the medium, the wizard and the thread in every state, whatever
\* is paused, resumed, reversed, refused or interrupted.  (Tcformat.c, InPlace.c.)
THEOREM ConversionInvariant == Spec => []ConversionInv
<1>1. Init => ConversionInv BY InitHolds
<1>2. ConversionInv /\ [Next]_vars => ConversionInv' BY StepNext
<1> QED BY <1>1, <1>2, PTL DEF Spec

\* Every variable keeps its type: the count in the configuration file never
\* exceeds the conversions begun, the distance to the saved header the interval,
\* and the buffer is there while a chunk is written only.  (InPlace.c.)
THEOREM TypesHold == Spec => []TypeOK
<1>1. ConversionInv => TypeOK
  <2> SUFFICES ASSUME ConversionInv PROVE TypeOK OBVIOUS
  <2>1. Types /\ BufferHolds BY DEF ConversionInv, Layout
  <2>2. count \in 0 .. MaxStarts
    <3>1. Pending \in {0, 1} BY DEF Pending
    <3>2. used.starts \in 0 .. MaxStarts /\ count \in Nat /\ count + Pending <= used.starts BY <2>1 DEF Types
    <3> QED BY <3>1, <3>2, Sizes
  <2>3. losses \in 0 .. MaxCrashes BY <2>1 DEF Types
  <2>4. buffer \in {<<>>} \cup [ChunkUnits -> Contents] BY <2>1 DEF BufferHolds
  <2> QED BY <2>1, <2>2, <2>3, <2>4 DEF Types, TypeOK
<1> QED BY <1>1, ConversionInvariant, PTL

\* A partition that the wizard calls encrypted has no plaintext left, not even
\* where the moving layout and the header were, and opens by either header; one
\* that it calls decrypted has neither a header nor ciphertext behind the file
\* system.  (EncryptPartitionInPlaceResume, DecryptPartitionInPlace.)
THEOREM NothingIsLeft == Spec => []FinishedLeavesNothing
<1>1. ConversionInv => FinishedLeavesNothing
  <2> SUFFICES ASSUME ConversionInv PROVE FinishedLeavesNothing OBVIOUS
  <2>1. Types /\ Layout /\ Finish /\ Told BY DEF ConversionInv
  <2>2. \A p \in Positions : dev[p] \in Contents /\ AtHome(p, dev[p]) BY <2>1, SavedIs DEF Layout
  <2>3. BackupAt \in Positions /\ BackupAt >= N /\ PrimaryAt = 0 /\ 0 \in Positions BY Places, Sizes
  <2>4. ASSUME ui = "encrypted"
        PROVE  /\ losses = 0 /\ ~excused => \A p \in Positions : dev[p].kind # "plain"
               /\ pc = "idle" => {dev[PrimaryAt], dev[BackupAt]} = {Header(N, TRUE)}
    <3>1. HeadersSaved /\ dev[BackupAt] = Header(N, TRUE) BY <2>1, <2>4 DEF Finish
    <3>2. CurrentLength = N
      <4>1. SavedLength = N BY <3>1 DEF SavedLength, Opens, Header
      <4>2. Loaded => length = N BY <2>1, <2>4 DEF Told, Loaded
      <4> QED BY <2>1, <4>1, <4>2, SavedIs
    <3>3. ASSUME losses = 0, ~excused, NEW p \in Positions, dev[p].kind = "plain" PROVE FALSE
      <4>1. p \in Units /\ p < N
        <5>1. dev[p].of = p /\ dev[p].of \in Units BY <2>2, <3>3, ContentsAre DEF AtHome
        <5> QED BY <5>1, Places
      <4>2. ~(p \in 0 .. O - 1) BY <3>1, <3>3 DEF HeadersSaved
      <4>3. p - O \in Units /\ p - O >= N - N /\ p - O + O = p BY <4>1, <4>2, Sizes DEF Units
      <4>4. Readable(p - O) BY <3>3, <4>3 DEF ConversionInv, Faithful
      <4>5. ReadableIn(dev, p - O, N) BY <3>2, <4>4, ReadableIs
      <4>6. dev[p].kind = "cipher" BY <4>3, <4>5 DEF ReadableIn
      <4> QED BY <3>3, <4>6
    <3> QED BY <3>1, <3>3 DEF HeadersSaved
  <2>5. ASSUME ui = "decrypted", NEW p \in Positions
        PROVE  dev[p].kind # "header" /\ (p >= N => dev[p].kind # "cipher")
    <3>1. \A q \in Positions : q >= N => dev[q].kind \notin {"header", "cipher"}
      BY <2>1, <2>5 DEF Finish, RestZeroed
    <3>2. SavedLength = 0 BY <2>3, <3>1 DEF SavedLength, Opens
    <3>3. dev[0].kind # "header" BY <2>1, <2>3, <3>2, Sizes DEF Layout, Opens
    <3>4. dev[p].kind = "header" => p = 0 \/ p = BackupAt BY <2>2, <2>3 DEF AtHome
    <3> QED BY <2>3, <3>1, <3>3, <3>4
  <2> QED BY <2>4, <2>5 DEF FinishedLeavesNothing
<1> QED BY <1>1, ConversionInvariant, PTL

\* The concealing of the file system agrees with the header as it did when the
\* conversion was last opened with nothing encrypted, and so does the count in
\* the configuration file, whatever is paused, reversed, torn or lost.
\* (ConcealNTFS, SaveNonSysInPlaceEncSettings, FastVolumeHeaderUpdate.)
THEOREM TracesDoAgree == Spec => []TracesAgree
<1>1. ConversionInv => TracesAgree
  <2> SUFFICES ASSUME ConversionInv PROVE TracesAgree OBVIOUS
  <2>1. Types /\ Layout /\ Finish /\ Marks /\ (~found.uncounted => Counts) BY DEF ConversionInv
  <2>2. ASSUME Exposed, CurrentLength > 0 PROVE found.visible
    <3>1. SavedLength > 0 \/ (Loaded /\ length > 0) BY <2>1, <2>2, SavedIs
    <3>2. dev[0].kind = "plain" /\ ~dev[0].mark BY <2>2, Made, Places DEF Exposed
    <3> QED BY <2>1, <3>1, <3>2 DEF Marks
  <2>3. ui = "encrypted" /\ dev[O].kind = "cipher" => (dev[O].mark <=> found.visible)
    <3>1. ui = "encrypted" => SavedLength = N BY <2>1 DEF Finish, SavedLength, Opens, Header
    <3> QED BY <2>1, <3>1 DEF Marks
  <2>4. ui = "decrypted" /\ dev[0].kind = "plain" => (dev[0].mark <=> found.visible) BY <2>1 DEF Marks
  <2>5. ASSUME pc = "idle", ScanFinds, dev[BackupAt].of > 0, ~found.uncounted PROVE count > 0
    <3>1. SavedLength = dev[BackupAt].of /\ SavedLength # N BY <2>5 DEF ScanFinds, SavedLength
    <3>2. SavedLength \in 0 .. N BY <2>1, SavedIs
    <3>3. SavedLength \in 1 .. N - 1 BY <2>5, <3>1, <3>2, Sizes
    <3> QED BY <2>1, <2>5, <3>3 DEF Counts
  <2> QED BY <2>2, <2>3, <2>4, <2>5 DEF TracesAgree
<1> QED BY <1>1, ConversionInvariant, PTL

(***************************************************************************)
(* What the user is promised.                                               *)
(***************************************************************************)
Intact == {u \in Units : Readable(u)}

LEMMA PromisedCardinality == ASSUME NEW S PROVE Promise!Cardinality(S) = Cardinality(S)
BY DEF Cardinality, Promise!Cardinality, IsFiniteSet, Promise!IsFiniteSet

\* The window holds no more units than the header may lag behind.
LEMMA WindowIsSmall ==
  ASSUME Types, NEW S \in SUBSET Window
  PROVE  Cardinality(S) <= Lag
<1> DEFINE low == IF mode = "encrypt" THEN N - SavedLength - (Interval - O) ELSE N - SavedLength
<1> DEFINE high == low + (Interval - O) - 1
<1>1. low \in Int /\ high \in Int /\ high - low + 1 = Interval - O
  <2>1. SavedLength \in 0 .. N BY SavedIs
  <2> QED BY <2>1, Sizes
<1>2. S \subseteq low .. high
  <2>1. SavedLength \in 0 .. N BY SavedIs
  <2>2. \A u \in Units : u \in Int BY Sizes DEF Units
  <2> QED BY <2>1, <2>2, Sizes DEF Window
<1> HIDE DEF low, high
<1>3. IsFiniteSet(low .. high) /\ Cardinality(low .. high) = IF low > high THEN 0 ELSE high - low + 1
  BY <1>1, FS_Interval
<1>4. Cardinality(S) <= Cardinality(low .. high) BY <1>2, <1>3, FS_Subset
<1>5. Cardinality(low .. high) <= Lag BY <1>1, <1>3, Sizes DEF Lag
<1>6. IsFiniteSet(S) BY <1>2, <1>3, FS_Subset
<1>7. Cardinality(S) \in Nat /\ Cardinality(low .. high) \in Nat /\ Lag \in Nat
  BY <1>3, <1>6, FS_CardinalityType, Sizes DEF Lag
<1> QED BY <1>4, <1>5, <1>7

\* A power loss costs units of the window only.
LEMMA CrashCosts ==
  ASSUME ConversionInv, Crash, ~excused
  PROVE  Intact \ Intact' \in SUBSET Window
<1>1. dev' \in InFlight /\ pc' = "idle" BY DEF Crash
<1>2. \A u \in Units \ Window : ReadableIn(dev, u, CurrentLength) => ReadableIn(dev', u, SavedLength')
  BY <1>1, CrashLands
<1>3. CurrentLength' = SavedLength' BY <1>1 DEF CurrentLength, SavedLength, Loaded
<1>4. \A u : Readable(u)' <=> ReadableIn(dev', u, SavedLength') BY <1>3 DEF Readable, ReadableIn
<1>5. \A u : Readable(u) <=> ReadableIn(dev, u, CurrentLength) BY ReadableIs
<1>6. Intact' = {u \in Units : Readable(u)'} BY DEF Intact
<1>7. ASSUME NEW u \in Intact \ Intact', u \notin Window PROVE FALSE
  <2>1. u \in Units \ Window /\ ReadableIn(dev, u, CurrentLength) BY <1>5, <1>7 DEF Intact
  <2>2. Readable(u)' BY <1>2, <1>4, <2>1
  <2> QED BY <1>6, <1>7, <2>1, <2>2
<1> QED BY <1>7

\* Only a crash counts as a loss of power, and nothing is excused again.
LEMMA CountsKept ==
  ASSUME ConversionInv, [Next]_vars, ~Crash
  PROVE  losses' = losses /\ (excused => excused')
<1>1. CASE UserStep
  <2>1. StartEncryption => losses' = losses /\ (excused => excused') BY DEF StartEncryption, Launch
  <2>2. StartDecryption => losses' = losses /\ (excused => excused') BY DEF StartDecryption, Launch
  <2>3. ResumeHere \/ ResumeElsewhere => losses' = losses /\ (excused => excused')
    BY DEF ResumeHere, ResumeElsewhere, Launch
  <2>4. Cancel \/ ExitWizard => losses' = losses /\ (excused => excused') BY DEF Cancel, ExitWizard
  <2> QED BY <1>1, <2>1, <2>2, <2>3, <2>4 DEF UserStep
<1>2. CASE BeginStep
  <2>1. WriteBackupHeader => losses' = losses /\ excused' = excused BY DEF WriteBackupHeader
  <2>2. VerifyBackupHeader => losses' = losses /\ excused' = excused BY DEF VerifyBackupHeader
  <2>3. Conceal \/ Register => losses' = losses /\ excused' = excused BY DEF Conceal, Register
  <2> QED BY <1>2, <2>1, <2>2, <2>3 DEF BeginStep
<1>3. CASE OpenVolume \/ CannotOpenVolume BY <1>3 DEF OpenVolume, CannotOpenVolume
<1>4. CASE LoopStep
  <2>1. ReadChunk \/ ReadFails => losses' = losses /\ excused' = excused BY DEF ReadChunk, ReadFails
  <2>2. GiveUpUnit => losses' = losses /\ excused' BY DEF GiveUpUnit
  <2>3. WriteChunk => losses' = losses /\ excused' = excused BY DEF WriteChunk
  <2>4. WriteFails => losses' = losses /\ (excused => excused') BY DEF WriteFails
  <2>5. IntervalUpdate \/ FinalUpdate => losses' = losses /\ excused' = excused
    BY DEF IntervalUpdate, FinalUpdate, UpdateHeader
  <2>6. Poll \/ LeaveLoop => losses' = losses /\ excused' = excused BY DEF Poll, LeaveLoop
  <2> QED BY <1>4, <2>1, <2>2, <2>3, <2>4, <2>5, <2>6 DEF LoopStep
<1>5. CASE EndStep
  <2>1. Pause \/ Unregister \/ EndThread => losses' = losses /\ excused' = excused BY DEF Pause, Unregister, EndThread
  <2>2. WritePrimaryHeader => losses' = losses /\ excused' = excused BY DEF WritePrimaryHeader
  <2>3. RevealNTFS => losses' = losses /\ excused' = excused BY DEF RevealNTFS
  <2>4. ZeroRest => losses' = losses /\ excused' = excused BY DEF ZeroRest
  <2>5. ASSUME Close PROVE losses' = losses /\ (excused => excused')
    <3>1. losses' = losses /\ (UNCHANGED excused \/ excused' = (excused \/ dev[BackupAt] # Header(length, TRUE)))
      BY <2>5 DEF Close
    <3>2. excused' = (excused \/ dev[BackupAt] # Header(length, TRUE)) => (excused => excused') OBVIOUS
    <3> QED BY <3>1, <3>2
  <2> QED BY <1>5, <2>1, <2>2, <2>3, <2>4, <2>5 DEF EndStep
<1>6. CASE UNCHANGED vars BY <1>6 DEF vars
<1> QED BY <1>1, <1>2, <1>3, <1>4, <1>5, <1>6 DEF Next, ThreadStep

\* The conversion is safe: pausing, resuming in either direction, deferring and
\* an error that the code undoes lose nothing, and a power loss costs no more
\* than the interval between header updates exceeds the shift.  (InPlace.c.)
THEOREM ConversionIsSafe == Spec => IsSafeConversion
<1>1. Init => Promise!Init
  <2> SUFFICES ASSUME Init PROVE Promise!Init OBVIOUS
  <2>1. {u \in Units : Readable(u)} = Units BY InitHolds
  <2> QED BY <2>1 DEF Init, Promise!Init
<1>2. ConversionInv /\ ConversionInv' /\ [Next]_vars => [Promise!Next]_(Promise!vars)
  <2> SUFFICES ASSUME ConversionInv, ConversionInv', [Next]_vars
               PROVE  Promise!Next \/ UNCHANGED <<{u \in Units : Readable(u)}, losses, excused>>
    BY DEF Promise!vars
  <2>1. Intact = {u \in Units : Readable(u)} /\ Intact' = {u \in Units : Readable(u)}' BY DEF Intact
  <2>2. Intact' \in SUBSET Units BY DEF Intact
  <2>3. excused \in BOOLEAN /\ excused' \in BOOLEAN BY DEF ConversionInv, Types
  <2>4. CASE Crash
    <3>1. losses' = losses + 1 /\ excused' = excused BY <2>4 DEF Crash
    <3>2. excused \/ Cardinality(Intact \ Intact') <= Lag
      BY <2>4, CrashCosts, WindowIsSmall DEF ConversionInv
    <3> QED BY <2>1, <2>2, <3>1, <3>2, PromisedCardinality DEF Promise!Next, Promise!PowerLoss
  <2>5. CASE ~Crash
    <3>1. losses' = losses /\ (excused => excused') BY <2>5, CountsKept
    <3>2. CASE excused' BY <2>1, <2>2, <2>3, <3>1, <3>2 DEF Promise!Next, Promise!Fail
    <3>3. CASE ~excused'
      <4>1. \A u \in Units : Readable(u)' <=> Readable(u) BY <2>5, <3>3, StepNext DEF Kept
      <4>2. Intact' = Intact
        <5>1. Intact' = {u \in Units : Readable(u)'} BY DEF Intact
        <5> QED BY <4>1, <5>1 DEF Intact
      <4> QED BY <2>1, <2>3, <3>1, <3>3, <4>2
    <3> QED BY <3>2, <3>3
  <2> QED BY <2>4, <2>5
<1> QED BY <1>1, <1>2, ConversionInvariant, PTL DEF Spec, IsSafeConversion, Promise!Spec

\* Every power loss adds at most Lag units to those that are lost.
Costs == ~excused => Cardinality(Units \ Intact) <= losses * Lag

LEMMA UnitsAreFinite == \A S : S \subseteq Units => IsFiniteSet(S) /\ Cardinality(S) \in Nat
<1>1. IsFiniteSet(Units) BY Sizes, FS_Interval DEF Units
<1> QED BY <1>1, FS_Subset, FS_CardinalityType

LEMMA CostsKept ==
  ASSUME ConversionInv, ConversionInv', [Next]_vars, Costs
  PROVE  Costs'
<1> DEFINE lost == Units \ Intact
<1> DEFINE struck == Intact \ Intact'
<1>1. SUFFICES ASSUME ~excused' PROVE Cardinality(Units \ Intact') <= losses' * Lag BY DEF Costs
<1>2. Intact \subseteq Units /\ Intact' \subseteq Units BY DEF Intact
<1>3. IsFiniteSet(lost) /\ Cardinality(lost) \in Nat /\ IsFiniteSet(struck) /\ Cardinality(struck) \in Nat
  BY <1>2, UnitsAreFinite
<1>4. Lag \in Nat /\ losses \in Nat BY Sizes DEF Lag, ConversionInv, Types
<1>5. CASE Crash
  <2>1. losses' = losses + 1 /\ ~excused BY <1>1, <1>5 DEF Crash
  <2>2. Cardinality(lost) <= losses * Lag BY <2>1 DEF Costs
  <2>3. Cardinality(struck) <= Lag BY <1>5, <2>1, CrashCosts, WindowIsSmall DEF ConversionInv
  <2>4. Units \ Intact' \subseteq lost \cup struck BY <1>2
  <2>5. IsFiniteSet(lost \cup struck) /\ Cardinality(lost \cup struck) <= Cardinality(lost) + Cardinality(struck)
    <3>1. lost \cup struck \subseteq Units /\ lost \cap struck \subseteq Units BY <1>2
    <3>2. /\ IsFiniteSet(lost \cup struck) /\ Cardinality(lost \cup struck) \in Nat
          /\ Cardinality(lost \cap struck) \in Nat
      BY <3>1, UnitsAreFinite
    <3>3. Cardinality(lost \cup struck) = Cardinality(lost) + Cardinality(struck) - Cardinality(lost \cap struck)
      BY <1>3, FS_Union
    <3> HIDE DEF lost, struck
    <3> QED BY <1>3, <3>2, <3>3
  <2>6. Cardinality(Units \ Intact') <= Cardinality(lost \cup struck) BY <2>4, <2>5, FS_Subset
  <2>7. Cardinality(Units \ Intact') \in Nat /\ Cardinality(lost \cup struck) \in Nat
    <3>1. Units \ Intact' \subseteq Units /\ lost \cup struck \subseteq Units BY <1>2
    <3> QED BY <3>1, UnitsAreFinite
  <2>8. (losses + 1) * Lag = losses * Lag + Lag /\ losses * Lag \in Nat BY <1>4
  <2> HIDE DEF lost, struck
  <2> QED BY <1>3, <1>4, <2>1, <2>2, <2>3, <2>5, <2>6, <2>7, <2>8
<1>6. CASE ~Crash
  <2>1. losses' = losses /\ ~excused BY <1>1, <1>6, CountsKept
  <2>2. \A u \in Units : Readable(u)' <=> Readable(u) BY <1>1, <1>6, StepNext DEF Kept
  <2>3. Intact' = Intact
    <3>1. Intact' = {u \in Units : Readable(u)'} BY DEF Intact
    <3> QED BY <2>2, <3>1 DEF Intact
  <2> QED BY <2>1, <2>3 DEF Costs
<1> QED BY <1>5, <1>6

\* A header that a mount accepts while the wizard does nothing stands before a
\* data area that is encrypted, but for Lag units for every power loss; nothing is
\* said once a failure has excused the loss of data.  (MountVolume,
\* EncryptPartitionInPlaceBegin, DecryptPartitionInPlace.)
THEOREM MountIsTold == Spec => []MountTellsTruth
<1>1. Init => Costs
  <2> SUFFICES ASSUME Init PROVE Costs OBVIOUS
  <2>1. Units \ Intact = {} BY InitHolds DEF Intact
  <2>2. losses = 0 BY DEF Init
  <2>3. Lag \in Nat BY Sizes DEF Lag
  <2> QED BY <2>1, <2>2, <2>3, FS_EmptySet DEF Costs
<1>2. ConversionInv /\ ConversionInv' /\ [Next]_vars /\ Costs => Costs' BY CostsKept
<1>3. ConversionInv /\ Costs => MountTellsTruth
  <2> SUFFICES ASSUME ConversionInv, Costs, pc = "idle", ~excused, NEW p \in {PrimaryAt, BackupAt}, MountAccepts(dev[p])
               PROVE  Cardinality({u \in Units : ~(dev[u + O].kind = "cipher" /\ dev[u + O].of = u)}) <= losses * Lag
    BY DEF MountTellsTruth
  <2>1. Types /\ Layout BY DEF ConversionInv
  <2>2. Opens(dev[p]) /\ (dev[p].mark => dev[p].of = N) BY DEF MountAccepts
  <2>3. SavedLength = N
    <3>1. CASE p = PrimaryAt BY <2>1, <2>2, <3>1 DEF Layout
    <3>2. CASE p = BackupAt
      <4>1. dev[p].of = N BY <2>1, <2>2, <3>2 DEF Layout
      <4> QED BY <2>2, <3>2, <4>1 DEF SavedLength
    <3> QED BY <3>1, <3>2
  <2>4. CurrentLength = N
    <3>1. ~Loaded BY DEF Loaded
    <3> QED BY <2>1, <2>3, <3>1, SavedIs
  <2>5. ASSUME NEW u \in Units PROVE Readable(u) <=> dev[u + O].kind = "cipher" /\ dev[u + O].of = u
    <3>1. u >= N - N BY Places, Sizes
    <3>2. Readable(u) <=> ReadableIn(dev, u, N) BY <2>4, ReadableIs
    <3> QED BY <3>1, <3>2 DEF ReadableIn
  <2>6. {u \in Units : ~(dev[u + O].kind = "cipher" /\ dev[u + O].of = u)} = Units \ Intact BY <2>5 DEF Intact
  <2> QED BY <2>6 DEF Costs
<1> QED BY <1>1, <1>2, <1>3, ConversionInvariant, PTL DEF Spec
=============================================================================
