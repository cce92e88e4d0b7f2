------------------------------ MODULE MCDhcpLan -----------------------------
(* Instances of DhcpLan for TLC.  b sets itself an address of the pool and *)
(* may be cut off for it.                                                  *)
EXTENDS DhcpLan, TLC

CONSTANTS a, b, c   \* clients

\* Nothing, or what older firmware may have left: a version 1 blob with one
\* lease, or a version 2 blob in which a second client was seen on it.
OldBlobs ==
  {NoBlob}
  \cup {[version |-> 1, boot_seq |-> 0,
         table |-> [NoBlob.table EXCEPT ![m] = [Absent EXCEPT !.ip = 2]]] : m \in MACs}
  \cup {[version |-> 2, boot_seq |-> 0,
         table |-> [NoBlob.table EXCEPT ![m[1]] = [Absent EXCEPT !.ip = 3],
                                        ![m[2]] = [Absent EXCEPT !.ip = 2,
                                                                 !.observed_ip = 3]]] :
         m \in {p \in MACs \X MACs : p[1] # p[2]}}

ManualB == {<<b, 2>>}
CutB == {{}, {b}}

\* The clients that keep to their leases.
Alike == Permutations(MACs \ {b})

\* What is left to be told apart: the last reply is read by nothing; while the
\* table is dirty a save overwrites what its entries believe of flash before it
\* is looked at again, and once the boots have reached their bound flash itself.
Unsaved == s_dirty # "clean"
Entries ==
  [m \in MACs |-> IF Unsaved THEN [s_leases[m] EXCEPT !.saved_ip = 0, !.saved_observed_ip = 0]
                  ELSE s_leases[m]]
Ahead ==
  <<Entries, s_declined, s_boot_seq, s_dirty, granted,
    IF Unsaved /\ flash.boot_seq >= MaxBootSeq THEN <<>> ELSE <<flash>>>>
=============================================================================
