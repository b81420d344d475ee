---------------------------- MODULE MCManagement ----------------------------
(* Management on small instances.                                          *)
EXTENDS Management

CONSTANT
  Plans           \* sets of targets: what the operator asks for in a behaviour

VARIABLE
  plan            \* one of them; the empty one is to maintain the database

Installs(v) == [op |-> "install", app |-> v, version |-> v]
Removes(v) == [op |-> "uninstall", app |-> v, version |-> v]
Upgrades(v) == [op |-> "upgrade", app |-> v, version |-> v]
Ensures(v) == [op |-> "ensure", app |-> v, version |-> v]

\* The files of release 2 were replaced by those of release 1.
Overwritten == [op |-> "install", app |-> 1, version |-> 2]

Everything == {Installs(2), Removes(1), Upgrades(2), Overwritten, Ensures(1)}

Replacing == {Installs(2), Removes(1)}
AllPlans == {Replacing, {Upgrades(2)}, {Overwritten}, {}}

OneRelease == {Installs(1), Removes(1), Ensures(1)}
RemovalOnly == {{Installs(1), Removes(1)}}

Ensuring == {Ensures(1)}
EnsureOnly == {Ensuring}

\* The Gateway is of release 2, the plugin of release 1.
Newer == DbInit /\ Installed(1, 2) /\ plugin = 1 /\ plan \in Plans

MCInit ==
  /\ Init /\ plugin = 1
  /\ \/ NotInstalled /\ plan \in Plans \ {{}}
     \/ Installed(1, 1) /\ plan \in Plans

\* Without a plan to change what PM2 runs, the database is maintained, and
\* there is one release.
Wants(c) ==
  \/ client'[c].op = "none" \/ c \in Plugins
  \/ IF plan = {} THEN client'[c].op \in Upkeep
     ELSE \E target \in plan : target.op = client'[c].op /\ target.app = client'[c].app

MCNext ==
  /\ Next /\ UNCHANGED plan
  /\ \A c \in Clients : Wants(c)
  /\ IF plan = {} THEN \A p \in Pids : image'[p] < 2 ELSE UNCHANGED dbVars

MCSpec == MCInit /\ [][MCNext]_<<vars, plan>>
MCFairSpec == MCSpec /\ Fairness

DowngradeSpec == Newer /\ [][MCNext]_<<vars, plan>>
=============================================================================
