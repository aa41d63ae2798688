---------------------------- MODULE MCDispatcher ----------------------------
(***************************************************************************)
(* Dispatcher on a small instance.  Messages of session ka carry the       *)
(* session key themselves (a1 to a4, and the commands); b1 belongs to      *)
(* session kb; t1 arrives under the chat key kb and is moved to ka when    *)
(* its tenant is resolved.                                                 *)
(***************************************************************************)
EXTENDS Dispatcher, TLC

CONSTANTS ka, kb, a1, a2, a3, a4, b1, t1

MCRouteKey    == [m \in Msgs |-> IF m \in {b1, t1} THEN kb ELSE ka]
MCDispatchKey == [m \in Msgs |-> IF m = b1 THEN kb ELSE ka]

\* Follow-ups of ka are interchangeable.
Symm == Permutations({a1, a2, a3, a4} \cap Msgs)
=============================================================================
