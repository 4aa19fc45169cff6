-------------------------- MODULE MCEscalationDraft -------------------------
(* Instance of EscalationDraft for TLC.                                    *)
EXTENDS EscalationDraft, TLC
=============================================================================
