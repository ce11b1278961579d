----------------------------- MODULE MCRegistry -----------------------------
(* Small instances of Registry for TLC. *)
EXTENDS Registry, TLC

CONSTANTS x1, x2, u1, web, db, p1, p2

Declares(ports, cron) == [ports |-> ports, cron |-> cron]

\* web is a labelled container, which is recreated without ports; db has no labels.
RecreatedName   == (x1 :> web) @@ (x2 :> web) @@ (u1 :> db)
RecreatedLabels ==
  (x1 :> Declares({p1}, "valid")) @@ (x2 :> Declares({}, "valid")) @@ (u1 :> None)

\* The YAML file declares db; or db on the port of web, and web with another port and
\* an expression that is not one.
OnlyDb == (web :> None) @@ (db :> Declares({p2}, "none"))
Both   == (web :> Declares({p2}, "invalid")) @@ (db :> Declares({p1}, "valid"))
YamlConfigs == {OnlyDb, Both}
=============================================================================
