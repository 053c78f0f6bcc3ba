------------------------- MODULE DesktopDatabase_MC -------------------------
(* The databases earlier builds left, for checking DesktopDatabase.        *)
EXTENDS DesktopDatabase

\* From before user_version: the two columns of the old best-effort ALTERs.
Legacy    == [work |-> 1, user_version |-> 0, schema |-> {"dup_flag", "audit_log"}]
\* From a build with the first three migrations.
Versioned == [work |-> 1, user_version |-> 3,
              schema |-> {"dup_flag", "audit_log", "gst_rate", "gst_amount", "gst_type"}]

OldDatabases == {Legacy, Versioned}
NoDatabases  == {}
=============================================================================
