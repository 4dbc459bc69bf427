------------------------------- MODULE IdPool -------------------------------
(***************************************************************************)
(* What NextID and ReleaseID of internal/database/packet_id.go promise     *)
(* together: an identifier that is handed out is in use by nobody else     *)
(* until it is given back.                                                 *)
(***************************************************************************)
EXTENDS Naturals

CONSTANT ID

VARIABLE inUse

Init == inUse = {}

Take == \E id \in ID \ inUse : inUse' = inUse \cup {id}

GiveBack == \E id \in inUse : inUse' = inUse \ {id}

Spec == Init /\ [][Take \/ GiveBack]_inUse
=============================================================================
