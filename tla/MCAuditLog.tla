--------------------------- MODULE MCAuditLog ---------------------------
(* A ring of three slots and three entries, so that an entry out of place    *)
(* shows; a reader asks for fewer than none up to more than all.             *)
EXTENDS AuditLog

MCRequests == -1 .. MaxSize + 1
==========================================================================
