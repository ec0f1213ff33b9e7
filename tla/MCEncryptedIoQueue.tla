------------------------- MODULE MCEncryptedIoQueue -------------------------
EXTENDS EncryptedIoQueue, TLC

W(o, l) == [write |-> TRUE, aligned |-> TRUE, off |-> o, len |-> l]
R(o, l) == [write |-> FALSE, aligned |-> TRUE, off |-> o, len |-> l]
M(o, l) == [write |-> FALSE, aligned |-> FALSE, off |-> o, len |-> l]

HoldOps == {W(0, 1), R(0, 1)}
LiveOps == {W(0, 1), R(0, 1), M(0, 1)}
\* Up to three fragments; the last block is protected, and the device ends after it.
ProtectOps == {W(0, 2), W(0, 3), W(2, 2), R(0, 1), R(0, 3)}

\* A hold or a stop, not both in a behaviour.
HoldOrStop == holds = 0 \/ pc["stop"] = "idle"

\* One IRP writes and the others read, so that the I/O thread completes the one
\* and the completion thread the others.
Writer == CHOOSE i \in Irps : TRUE
OneWriter == \A i \in Irps : op[i].write <=> i = Writer

Symmetry == Permutations(Irps)
=============================================================================
