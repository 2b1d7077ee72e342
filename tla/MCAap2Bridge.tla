----------------------------- MODULE MCAap2Bridge -----------------------------
(* Aap2Bridge with one or two bundles in and two ADUs out. *)
EXTENDS Aap2Bridge
CONSTANTS b1, b2, o1, o2
=============================================================================
