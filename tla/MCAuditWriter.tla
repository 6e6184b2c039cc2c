---------------------------- MODULE MCAuditWriter ----------------------------
(* Small instances of AuditWriter.                                         *)
EXTENDS AuditWriter

CONSTANTS t1, t2

TwoTenants == {t1, t2}
=============================================================================
