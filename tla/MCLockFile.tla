----------------------------- MODULE MCLockFile -----------------------------
(***************************************************************************)
(* Model-checking instance of LockFile: three users of the lock, each in a *)
(* process of its own, or two of them in one process.                      *)
(***************************************************************************)
EXTENDS LockFile, TLC

CONSTANTS u1, u2, u3, p1, p2, p3

OwnProcess == (u1 :> p1) @@ (u2 :> p2) @@ (u3 :> p3)
SharedProcess == (u1 :> p1) @@ (u2 :> p1) @@ (u3 :> p2)
=============================================================================
