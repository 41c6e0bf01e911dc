---------------------------- MODULE SpaceManager ----------------------------
(***************************************************************************)
(* What the file space allocator (internal/writer/allocator.go) promises,  *)
(* with its lists left out: a set of addresses in use and an end of file.  *)
(* A request is granted a run of addresses nobody uses, and the file ends  *)
(* right after the last address in use.                                    *)
(***************************************************************************)
EXTENDS Integers

CONSTANTS InitialOffset,   \* first address the allocator manages, a natural number
          Sizes            \* sizes of the requests, positive

VARIABLES used,   \* addresses held by clients
          eof     \* end-of-file address

vars == <<used, eof>>

\* The run of n addresses that starts at a.
Run(a, n) == a .. (a + n - 1)

\* The file ends right after the last address in use.
EndsAfterUse(U, e) == /\ U \subseteq InitialOffset .. (e - 1)
                      /\ e = InitialOffset \/ (e - 1) \in U

Init == used = {} /\ eof = InitialOffset

\* A client is granted n unused addresses, inside the file or at its end.
Grant(n) ==
    \E a \in InitialOffset .. eof :
        /\ Run(a, n) \cap used = {}
        /\ used' = used \cup Run(a, n)
        /\ eof' = IF a = eof THEN eof + n ELSE eof
        /\ EndsAfterUse(used', eof')

\* A client gives back a run of the addresses it holds.
Release ==
    \E a \in InitialOffset .. (eof - 1) : \E n \in 1 .. (eof - a) :
        /\ Run(a, n) \subseteq used
        /\ used' = used \ Run(a, n)
        /\ eof' \in InitialOffset .. eof
        /\ EndsAfterUse(used', eof')

Next == Release \/ \E n \in Sizes : Grant(n)

Spec == Init /\ [][Next]_vars
=============================================================================
