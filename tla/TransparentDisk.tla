--------------------------- MODULE TransparentDisk ---------------------------
(***************************************************************************)
(* What the clients of the encrypted I/O queue are promised: a plain disk.  *)
(* There is no cipher, no fragment buffer, no read-ahead and no holding of  *)
(* the queue; IRPs are served in the order they arrived, block by block,    *)
(* and each is answered once, after its last block.                         *)
(***************************************************************************)
EXTENDS Integers, Sequences

CONSTANTS Irps, Blocks, Ops, Origin, Fragment(_, _)

VARIABLES disk, op, state, status, served, data, answer, arrival
vars == <<disk, op, state, status, served, data, answer, arrival>>

Init ==
  /\ disk = [b \in Blocks |-> Origin]
  /\ op \in [Irps -> Ops]
  /\ state = [i \in Irps |-> "new"]
  /\ status = [i \in Irps |-> "ok"]
  /\ served = [i \in Irps |-> 0]
  /\ data = [i \in Irps |-> <<>>]
  /\ answer = [i \in Irps |-> <<>>]
  /\ arrival = <<>>

BlockOf(i) == op[i].off + served[i]
Finished(i) == served[i] = op[i].len

\* Earlier arrivals are answered or have been served to their last block.
InTurn(i) ==
  \E n \in DOMAIN arrival :
    /\ arrival[n] = i
    /\ \A m \in 1 .. n - 1 : state[arrival[m]] = "done" \/ Finished(arrival[m])

Serve(i) ==
  /\ state[i] = "open" /\ ~Finished(i) /\ InTurn(i)
  /\ served' = [served EXCEPT ![i] = @ + 1]
  /\ UNCHANGED <<op, state, answer, arrival>>

Submit(i) ==
  /\ state[i] = "new" /\ state' = [state EXCEPT ![i] = "open"]
  /\ arrival' = Append(arrival, i)
  /\ UNCHANGED <<disk, op, status, served, data, answer>>

Reject(i) ==
  /\ state[i] = "new" /\ state' = [state EXCEPT ![i] = "rejected"]
  /\ UNCHANGED <<disk, op, status, served, data, answer, arrival>>

Write(i) ==
  /\ Serve(i) /\ status[i] = "ok" /\ op[i].write
  /\ disk' = [disk EXCEPT ![BlockOf(i)] = Fragment(i, served[i] + 1)]
  /\ UNCHANGED <<status, data>>

Read(i) ==
  /\ Serve(i) /\ status[i] = "ok" /\ ~op[i].write
  /\ data' = [data EXCEPT ![i] = Append(@, disk[BlockOf(i)])]
  /\ UNCHANGED <<disk, status>>

\* A failed write leaves the old contents of its block or the new.
Fail(i) ==
  /\ Serve(i) /\ status[i] = "ok" /\ status' = [status EXCEPT ![i] = "error"]
  /\ \/ UNCHANGED disk
     \/ op[i].write /\ disk' = [disk EXCEPT ![BlockOf(i)] = Fragment(i, served[i] + 1)]
  /\ UNCHANGED data

\* Nothing of an IRP is performed after one of its blocks failed.
Skip(i) ==
  /\ Serve(i) /\ status[i] # "ok"
  /\ UNCHANGED <<disk, status, data>>

Complete(i) ==
  /\ state[i] = "open" /\ Finished(i) /\ state' = [state EXCEPT ![i] = "done"]
  /\ answer' = IF status[i] = "ok" THEN [answer EXCEPT ![i] = data[i]] ELSE answer
  /\ UNCHANGED <<disk, op, status, served, data, arrival>>

\* Refused before any of its blocks was touched.
Refuse(i) ==
  /\ state[i] = "open" /\ served[i] = 0 /\ state' = [state EXCEPT ![i] = "done"]
  /\ status' \in {[status EXCEPT ![i] = s] : s \in {"error", "denied"}}
  /\ UNCHANGED <<disk, op, served, data, answer, arrival>>

\* A misaligned read need not wait for the IRPs before it.
ReadAtOnce(i) ==
  /\ state[i] = "open" /\ ~op[i].aligned /\ ~op[i].write
  /\ state' = [state EXCEPT ![i] = "done"]
  /\ served' = [served EXCEPT ![i] = op[i].len]
  /\ LET all == [k \in 1 .. op[i].len |-> disk[op[i].off + k - 1]]
     IN /\ data' = [data EXCEPT ![i] = all]
        /\ answer' = [answer EXCEPT ![i] = all]
  /\ UNCHANGED <<disk, op, status, arrival>>

Next == \E i \in Irps :
  \/ Submit(i) \/ Reject(i) \/ Write(i) \/ Read(i) \/ Fail(i) \/ Skip(i)
  \/ Complete(i) \/ Refuse(i) \/ ReadAtOnce(i)

Spec == Init /\ [][Next]_vars
=============================================================================
