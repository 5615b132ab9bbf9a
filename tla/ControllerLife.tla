----------------------------- MODULE ControllerLife -----------------------------
(***************************************************************************)
(* The controller as a process: `serve` from the Project lock to the       *)
(* discovery file and back (cli/serve.go, project/runtime.go), what it     *)
(* finds in the database file (project/database.go), the migration that    *)
(* prepares a Project (project/migration.go) and the clients that look for *)
(* the controller and write to it (extension/team-client.ts).              *)
(*                                                                         *)
(* The question the module answers: processes are killed at any step,      *)
(* among them between the two files of a transaction, others are started   *)
(* beside them, ports are reused and answers of dead controllers arrive    *)
(* late.  How far is there one writer, does the discovery file name it, do *)
(* writes reach the controller they were meant for, and is an old database *)
(* safe?                                                                   *)
(*                                                                         *)
(* Abstractions.  A controller id is the number of its start.  A database  *)
(* file is the tables it has, its epoch and the revision of the old rows   *)
(* in it.  A transaction is its begin, its first write, which takes the    *)
(* write lock of SQLite and leaves a journal beside the database, and its  *)
(* end.  Role files are one revision; the file system is not lost when a   *)
(* process dies.  Controllers of other Projects take and leave ports,      *)
(* answer /health and refuse our writes.                                   *)
(***************************************************************************)
EXTENDS Integers, FiniteSets

CONSTANTS
  Server,       \* processes that run `serve` for the Project
  Migrator,     \* processes that run `migrate` for it
  Client,       \* adapters of the Project
  Port,
  Path,         \* what --db can name
  StatePath,    \* the database in .runtime
  LegacyPath,   \* a database of pi-squad/1, outside .agents/pisquad
  None,
  Foreign,      \* a controller of another Project
  MaxStarts,    \* bound of the model: starts of `serve` that get the lock
  MaxRows,      \* bound of the model: writes of the old controller
  MaxChecks     \* bound of the model: connection checks of a client at one time

ASSUME ControllerAssumption ==
  /\ None \notin Server \cup Migrator \cup Port \cup {Foreign}
  /\ Foreign \notin Server /\ StatePath \in Path /\ StatePath # LegacyPath
  /\ Migrator # {} => LegacyPath \in Path
  /\ MaxStarts \in Nat /\ MaxRows \in Nat /\ MaxChecks \in Nat

VARIABLES
  server,         \* [Server -> record]
  lock,           \* who holds controller.lock
  starts,         \* ids given so far
  store,          \* [Path -> record]: the database files
  discovery,      \* controller.json
  listener,       \* [Port -> who listens]
  numbered,       \* history: <<path, epoch, id>> of every epoch committed
  accepted,       \* history: the write committed last, as sent and by whom
  client,         \* [Client -> record]
  layout,         \* .agents/pisquad, with the manifest of a migration
  roles,          \* revision of the files in .agents/roles
  oldWriter,      \* whether the pi-squad/1 controller runs
  migration,      \* [Migrator -> record]
  migrationLock   \* who holds pisquad-migration.lock

process == <<server, lock, starts, store, discovery, numbered, accepted>>
project == <<layout, roles, oldWriter, migration, migrationLock>>
vars == <<process, listener, client, project>>

-----------------------------------------------------------------------------
Discoveries == [id : 0..MaxStarts, epoch : Nat, port : Port \cup {None}]
ASSUME NoneIsNoDiscovery == None \notin Discoveries
Identity(p) == [id |-> server[p].id, epoch |-> server[p].epoch, port |-> server[p].port]

\* A transaction of `serve` before it listens, and where its commit leads.
After == [checked |-> "opened", opened |-> "migrated", migrated |-> "frozen",
          frozen |-> "numbered"]
Starting == DOMAIN After \cup {"locked", "numbered", "listening"}
Leaving == {"shutdown", "stopping", "closed", "removing", "unlocking", "exiting"}

Off == [pc |-> "off", id |-> 0, path |-> StatePath, epoch |-> 0, port |-> None,
        job |-> None, wrote |-> FALSE, why |-> "none"]
NoLayout == [kind |-> "absent", roles |-> 0, copied |-> 0, rows |-> 0]
Resting == [pc |-> "idle", kind |-> "roles", roles |-> 0, copied |-> 0, rows |-> 0]
Fresh == [tables |-> "none", rows |-> 0, epoch |-> 0, journal |-> "absent"]

Servers == [pc : Starting \cup Leaving \cup {"off", "serving"}, id : 0..MaxStarts,
            path : Path, epoch : Nat, port : Port \cup {None},
            job : Discoveries \cup {None}, wrote : BOOLEAN,
            why : {"none", "journal", "migrate"}]
\* The tables of an old database, which may lack what later versions of the
\* registry added; those that OpenRegistry has made, and those of the Store.
Old == {"partial", "complete"}
Stores == [tables : Old \cup {"none", "registry", "team"}, rows : 0..MaxRows,
           epoch : Nat, journal : {"absent", "present"}]
Checks == [d : Discoveries, newest : BOOLEAN, answer : Discoveries \cup {None}]
Clients == [known : Discoveries \cup {None}, checks : SUBSET Checks,
            request : Discoveries \cup {None}]
\* A migration prepares the roles alone, or a database with them.
Kinds == {"roles", "database"}
Layouts == [kind : Kinds \cup {"absent", "authored"}, roles : {0, 1}, copied : {0, 1},
            rows : 0..MaxRows]
Migrations == [pc : {"idle", "planned", "staging", "copied", "prepared"}, kind : Kinds,
               roles : {0, 1}, copied : {0, 1}, rows : 0..MaxRows]

\* Every variable has its type.
TypeOK ==
  /\ server \in [Server -> Servers] /\ lock \in Server \cup {None}
  /\ starts \in 0..MaxStarts /\ store \in [Path -> Stores]
  /\ discovery \in Discoveries \cup {None}
  /\ listener \in [Port -> Server \cup {Foreign, None}]
  /\ numbered \subseteq Path \X Nat \X (0..MaxStarts)
  /\ accepted \in [sent : Discoveries, by : Discoveries] \cup {None}
  /\ client \in [Client -> Clients]
  /\ layout \in Layouts /\ roles \in {0, 1} /\ oldWriter \in BOOLEAN
  /\ migration \in [Migrator -> Migrations] /\ migrationLock \in Migrator \cup {None}

\* The user has written the layout, or has an old Project to migrate.
Init ==
  /\ server = [p \in Server |-> Off] /\ lock = None /\ starts = 0
  /\ \E tables \in Old :
       store = [f \in Path |-> IF f = LegacyPath THEN [Fresh EXCEPT !.tables = tables]
                                                 ELSE Fresh]
  /\ discovery = None /\ listener = [o \in Port |-> None]
  /\ numbered = {} /\ accepted = None
  /\ client = [c \in Client |-> [known |-> None, checks |-> {}, request |-> None]]
  /\ layout = [NoLayout EXCEPT !.kind = IF Migrator = {} THEN "authored" ELSE "absent"]
  /\ roles = 0 /\ oldWriter = (Migrator # {})
  /\ migration = [m \in Migrator |-> Resting] /\ migrationLock = None

-----------------------------------------------------------------------------
(* serve: from the lock to the discovery file.                             *)

\* Discover and Load need the layout; the lock is a flock, gone with its holder.
Start(p, f) ==
  /\ server[p].pc = "off" /\ layout.kind # "absent"
  /\ lock = None /\ starts < MaxStarts
  /\ lock' = p /\ starts' = starts + 1
  /\ server' = [server EXCEPT ![p] =
                  [Off EXCEPT !.pc = "locked", !.id = starts + 1, !.path = f]]
  /\ UNCHANGED <<store, discovery, numbered, accepted, listener, client, project>>

\* Mutant: the path of the verified output is not compared.
PreparedAnywhere(f) == layout.kind = "database"

\* The database is what the manifest beside it says a migration prepared.
Prepared(f) == f = StatePath /\ layout.kind = "database" /\ store[f].tables \in Old

\* Who else has the write lock of the database that p uses: a process that has
\* let go of controller.lock and not ended yet.
OthersWrite(p) == \E q \in Server \ {p} : server[q].wrote /\ server[q].path = server[p].path

\* A journal whose writer is dead.
Hot(f) == store[f].journal = "present" /\ \A q \in Server : server[q].wrote => server[q].path # f

\* Why CheckDatabaseVersion refuses a database.  It opens the file read only,
\* and SQLite does not read past the journal of a dead writer that it may not
\* roll back.
Refusal(f) ==
  IF Hot(f) THEN "journal"
  ELSE IF store[f].tables \in Old \cup {"registry"} /\ ~Prepared(f) THEN "migrate"
  ELSE "none"

CheckDatabaseVersion(p) ==
  /\ server[p].pc = "locked"
  /\ LET why == Refusal(server[p].path)
     IN server' = [server EXCEPT ![p].why = why,
                                 ![p].pc = IF why = "none" THEN "checked" ELSE "stopping"]
  /\ UNCHANGED <<lock, starts, store, discovery, numbered, accepted, listener, client, project>>

\* The handle is open until CloseStore.
MayBegin == DOMAIN After \cup {"serving", "shutdown"}

\* A transaction of the start, a Tick, or the write that a client sent.  BEGIN
\* takes a connection and no lock.
Begin(p, job) ==
  /\ server[p].pc \in MayBegin /\ server[p].job = None
  /\ server' = [server EXCEPT ![p].job = job]

\* A transaction of the start, a Tick, or a request of nobody in Client, which
\* may still begin while Shutdown waits for it.
BeginOwn(p) ==
  /\ Begin(p, Identity(p))
  /\ UNCHANGED <<lock, starts, store, discovery, numbered, accepted, listener, client, project>>

\* What the transaction of p leaves beside the database until it ends: tables
\* that exist are not created again, and a configuration that was frozen before
\* is only compared.
Journals(p) ==
  LET s == store[server[p].path]
      unwritten == \/ server[p].pc = "checked" /\ s.tables \notin {"none", "partial"}
                   \/ server[p].pc = "opened" /\ s.tables = "team"
  IN IF unwritten THEN {"absent"}
     ELSE IF server[p].pc = "migrated" THEN {"absent", "present"} ELSE {"present"}

\* The first write waits for that of another process, or fails.
Write(p) ==
  /\ server[p].job # None /\ ~server[p].wrote /\ ~OthersWrite(p)
  /\ \E journal \in Journals(p) :
       store' = [store EXCEPT ![server[p].path].journal = journal]
  /\ server' = [server EXCEPT ![p].wrote = TRUE]
  /\ UNCHANGED <<lock, starts, discovery, numbered, accepted, listener, client, project>>

\* Which tables the transaction leaves.
Tables(s, pc) == CASE pc = "checked" /\ s.tables \in {"none", "partial"} -> "registry"
                   [] pc = "opened" -> "team"
                   [] OTHER -> s.tables

Epoch(s, pc) == IF pc = "frozen" THEN s.epoch + 1 ELSE s.epoch

\* What the transaction has made of the database.
Committed(s, pc) == [s EXCEPT !.tables = Tables(s, pc), !.epoch = Epoch(s, pc),
                              !.journal = "absent"]

Commit(p) ==
  LET f == server[p].path
      pc == server[p].pc
      epoch == IF pc = "frozen" THEN Epoch(store[f], pc) ELSE server[p].epoch
  IN /\ server[p].job # None /\ server[p].wrote
     /\ store' = [store EXCEPT ![f] = Committed(@, pc)]
     /\ server' = [server EXCEPT ![p].job = None, ![p].wrote = FALSE, ![p].epoch = epoch,
                                 ![p].pc = IF pc \in DOMAIN After THEN After[pc] ELSE pc]
     /\ numbered' = IF pc = "frozen" THEN numbered \cup {<<f, epoch, server[p].id>>}
                                     ELSE numbered
     /\ accepted' = IF pc \in DOMAIN After THEN accepted
                    ELSE [sent |-> server[p].job, by |-> Identity(p)]
     /\ UNCHANGED <<lock, starts, discovery, listener, client, project>>

\* The database when the transaction of p is undone.
Undone(p) == IF server[p].wrote THEN [store EXCEPT ![server[p].path].journal = "absent"]
             ELSE store

\* A transaction that fails is rolled back; before the server listens, serve
\* returns its error.
Rollback(p) ==
  /\ server[p].job # None
  /\ store' = Undone(p)
  /\ server' = [server EXCEPT ![p].job = None, ![p].wrote = FALSE,
                              ![p].pc = IF @ \in Starting THEN "stopping" ELSE @]
  /\ UNCHANGED <<lock, starts, discovery, numbered, accepted, listener, client, project>>

Listen(p, o) ==
  /\ server[p].pc = "numbered" /\ listener[o] = None
  /\ listener' = [listener EXCEPT ![o] = p]
  /\ server' = [server EXCEPT ![p].pc = "listening", ![p].port = o]
  /\ UNCHANGED <<lock, starts, store, discovery, numbered, accepted, client, project>>

Publish(p) ==
  /\ server[p].pc = "listening"
  /\ discovery' = Identity(p)
  /\ server' = [server EXCEPT ![p].pc = "serving"]
  /\ UNCHANGED <<lock, starts, store, numbered, accepted, listener, client, project>>

-----------------------------------------------------------------------------
(* The way out: the listener, the database, the discovery file, the lock.  *)

Released(p) == IF lock = p THEN None ELSE lock
Freed(p) == [o \in Port |-> IF listener[o] = p THEN None ELSE listener[o]]

\* Mutant: the lock is released before the database is closed.
StopUnlocking(p) ==
  /\ server[p].pc \in Starting \cup {"serving"}
  /\ server[p].pc = "serving" \/ server[p].job = None
  /\ lock' = Released(p) /\ listener' = Freed(p)
  /\ server' = [server EXCEPT ![p].pc = IF @ = "serving" THEN "shutdown" ELSE "stopping"]
  /\ UNCHANGED <<starts, store, discovery, numbered, accepted, client, project>>

\* A signal, or an error before or between the transactions of the start.
\* Shutdown leaves a running request five seconds.
Stop(p) ==
  /\ server[p].pc \in Starting \cup {"serving"}
  /\ server[p].pc = "serving" \/ server[p].job = None
  /\ listener' = Freed(p)
  /\ server' = [server EXCEPT ![p].pc = IF @ = "serving" THEN "shutdown" ELSE "stopping"]
  /\ UNCHANGED <<lock, starts, store, discovery, numbered, accepted, client, project>>

\* Nothing more can begin.  A transaction that runs keeps its connection and is
\* not waited for.
CloseStore(p) ==
  /\ server[p].pc \in {"shutdown", "stopping"}
  /\ server' = [server EXCEPT ![p].pc = "closed"]
  /\ UNCHANGED <<lock, starts, store, discovery, numbered, accepted, listener, client, project>>

\* Mutant: the lock is released before the publication is removed.
CompareUnlocking(p) ==
  /\ server[p].pc = "closed"
  /\ LET own == discovery # None /\ discovery.id = server[p].id
     IN server' = [server EXCEPT ![p].pc = IF own THEN "removing" ELSE "unlocking"]
  /\ lock' = Released(p)
  /\ UNCHANGED <<starts, store, discovery, numbered, accepted, listener, client, project>>

\* Mutant: nothing more is done when the publication is another's.
CompareOnly(p) ==
  /\ server[p].pc = "closed" /\ discovery # None /\ discovery.id = server[p].id
  /\ server' = [server EXCEPT ![p].pc = "removing"]
  /\ UNCHANGED <<lock, starts, store, discovery, numbered, accepted, listener, client, project>>

\* A discovery file is not a lock: only the own publication is removed.
CompareDiscovery(p) ==
  /\ server[p].pc = "closed"
  /\ LET own == discovery # None /\ discovery.id = server[p].id
     IN server' = [server EXCEPT ![p].pc = IF own THEN "removing" ELSE "unlocking"]
  /\ UNCHANGED <<lock, starts, store, discovery, numbered, accepted, listener, client, project>>

RemoveDiscovery(p) ==
  /\ server[p].pc = "removing"
  /\ discovery' = None
  /\ server' = [server EXCEPT ![p].pc = "unlocking"]
  /\ UNCHANGED <<lock, starts, store, numbered, accepted, listener, client, project>>

Unlock(p) ==
  /\ server[p].pc = "unlocking"
  /\ lock' = Released(p)
  /\ server' = [server EXCEPT ![p].pc = "exiting"]
  /\ UNCHANGED <<starts, store, discovery, numbered, accepted, listener, client, project>>

\* The files stay as they are, without a journal that was not yet synchronised.
Ends(p) ==
  /\ server' = [server EXCEPT ![p] = Off]
  /\ store' \in {store, Undone(p)}

\* serve has returned: the process ends, whatever runs in it.
Exit(p) ==
  /\ server[p].pc = "exiting" /\ Ends(p)
  /\ UNCHANGED <<lock, starts, discovery, numbered, accepted, listener, client, project>>

\* The process is killed: its lock and its port are free, its files stay.
Crash(p) ==
  /\ server[p].pc \notin {"off", "exiting"} /\ Ends(p)
  /\ lock' = Released(p) /\ listener' = Freed(p)
  /\ UNCHANGED <<starts, discovery, numbered, accepted, client, project>>

\* Another Project's controller takes the port, or leaves it.
ForeignListens(o) ==
  /\ listener[o] \in {None, Foreign}
  /\ listener' = [listener EXCEPT ![o] = IF @ = None THEN Foreign ELSE None]
  /\ UNCHANGED <<process, client, project>>

-----------------------------------------------------------------------------
(* Clients.                                                                *)

\* connect reads the discovery file at once; the check that started last is
\* the only one that counts, and it counts though there is no file.
Superseded(c) == {[k EXCEPT !.newest = FALSE] : k \in client[c].checks}

Connect(c) ==
  /\ Cardinality(client[c].checks) < MaxChecks
  /\ client' = [client EXCEPT ![c].checks = Superseded(c) \cup
       IF discovery = None THEN {}
       ELSE {[d |-> discovery, newest |-> TRUE, answer |-> None]}]
  /\ UNCHANGED <<process, listener, project>>

\* What answers /health at a port: id 0 stands for another Project's.
Health(o) == IF listener[o] = Foreign THEN [id |-> 0, epoch |-> 1, port |-> o]
             ELSE Identity(listener[o])
Answers(o) == \/ listener[o] = Foreign
              \/ \E p \in Server : listener[o] = p /\ server[p].pc = "serving"

HealthAnswered(c, k) ==
  /\ k \in client[c].checks /\ k.answer = None /\ Answers(k.d.port)
  /\ client' = [client EXCEPT ![c].checks =
                  (@ \ {k}) \cup {[k EXCEPT !.answer = Health(k.d.port)]}]
  /\ UNCHANGED <<process, listener, project>>

\* Mutant: any check that succeeds counts.
CountsAlways(k) == TRUE

\* Only the check that started last.
Counts(k) == k.newest

\* The check ends: with the known controller, with an error, or unanswered.
Checked(c, k) ==
  /\ k \in client[c].checks
  /\ client' = [client EXCEPT
       ![c].checks = @ \ {k},
       ![c].known = IF k.answer = k.d /\ Counts(k) THEN k.d ELSE @]
  /\ UNCHANGED <<process, listener, project>>

\* A write carries the controller that is known.
Post(c) ==
  /\ client[c].known # None /\ client[c].request = None
  /\ client' = [client EXCEPT ![c].request = client[c].known]
  /\ UNCHANGED <<process, listener, project>>

\* Mutant: the epoch stands for the controller.
HandshakeByEpoch(p, d) == d.epoch = server[p].epoch

\* The handshake of every write.
Handshake(p, d) == d.id = server[p].id

\* Shutdown lets a connection that was accepted before come to its end.
Serve(p, c) ==
  /\ client[c].request # None /\ server[p].pc \in {"serving", "shutdown"}
  /\ server[p].port = client[c].request.port
  /\ Handshake(p, client[c].request)
  /\ Begin(p, client[c].request)
  /\ client' = [client EXCEPT ![c].request = None]
  /\ UNCHANGED <<lock, starts, store, discovery, numbered, accepted, listener, project>>

\* Refused by whoever listens there, or not answered at all.
RequestFails(c) ==
  /\ client[c].request # None
  /\ client' = [client EXCEPT ![c].request = None]
  /\ UNCHANGED <<process, listener, project>>

-----------------------------------------------------------------------------
(* migrate, and the old Project it reads.                                  *)

OldWrite ==
  /\ oldWriter /\ store[LegacyPath].rows < MaxRows
  /\ store' = [store EXCEPT ![LegacyPath].rows = @ + 1]
  /\ UNCHANGED <<server, lock, starts, discovery, numbered, accepted, listener, client, project>>

OldStops ==
  /\ oldWriter /\ oldWriter' = FALSE
  /\ UNCHANGED <<process, listener, client, layout, roles, migration, migrationLock>>

EditRoles ==
  /\ Migrator # {} /\ roles' = 1 - roles
  /\ UNCHANGED <<process, listener, client, layout, oldWriter, migration, migrationLock>>

\* The user writes a Project by hand.
Author ==
  /\ layout.kind = "absent"
  /\ layout' = [NoLayout EXCEPT !.kind = "authored"]
  /\ UNCHANGED <<process, listener, client, roles, oldWriter, migration, migrationLock>>

\* Mutant: migrate does not ask.
ConfirmedUnasked == TRUE

\* --confirm-old-writer-stopped: the operator says what is so.
Confirmed == ~oldWriter

Moves(m, record) ==
  /\ migration' = [migration EXCEPT ![m] = record]
  /\ UNCHANGED <<process, listener, client, roles, oldWriter>>

PlanMigration(m, kind) ==
  /\ migration[m].pc = "idle" /\ layout.kind = "absent" /\ Confirmed
  /\ Moves(m, [Resting EXCEPT !.pc = "planned", !.roles = roles, !.kind = kind])
  /\ UNCHANGED <<layout, migrationLock>>

LockMigration(m) ==
  /\ migration[m].pc = "planned" /\ migrationLock = None
  /\ migrationLock' = m
  /\ Moves(m, [migration[m] EXCEPT !.pc = "staging"])
  /\ UNCHANGED layout

\* A role file that is not what was planned ends the migration.
CopyRoles(m) ==
  /\ migration[m].pc = "staging" /\ migration[m].roles = roles
  /\ Moves(m, [migration[m] EXCEPT !.pc = "copied", !.copied = roles])
  /\ UNCHANGED <<layout, migrationLock>>

\* VACUUM INTO, and the hash of the prepared copy for the manifest.
BackUp(m) ==
  /\ migration[m].pc = "copied"
  /\ Moves(m, [migration[m] EXCEPT !.pc = "prepared",
       !.rows = IF migration[m].kind = "database" THEN store[LegacyPath].rows ELSE 0])
  /\ UNCHANGED <<layout, migrationLock>>

\* The rename of the whole layout, which fails when there is one.
PublishLayout(m) ==
  LET g == migration[m] IN
  /\ g.pc = "prepared" /\ layout.kind = "absent"
  /\ layout' = [kind |-> g.kind, roles |-> g.roles, copied |-> g.copied, rows |-> g.rows]
  /\ store' = IF g.kind = "database" THEN [store EXCEPT ![StatePath] =
                              [Fresh EXCEPT !.tables = store[LegacyPath].tables, !.rows = g.rows]]
              ELSE store
  /\ migration' = [migration EXCEPT ![m] = Resting]
  /\ migrationLock' = None
  /\ UNCHANGED <<server, lock, starts, discovery, numbered, accepted, listener, client,
                 roles, oldWriter>>

\* Refused, failed or killed: the staging directory is not looked at again.
EndMigration(m) ==
  /\ migration[m].pc # "idle"
  /\ migrationLock' = IF migrationLock = m THEN None ELSE migrationLock
  /\ Moves(m, Resting)
  /\ UNCHANGED layout

-----------------------------------------------------------------------------
(* The specification.                                                      *)

\* What `serve` does by itself, as far as it does not wait for anyone.
Proceeds(p) ==
  \/ CheckDatabaseVersion(p)
  \/ server[p].pc \in DOMAIN After /\ BeginOwn(p)
  \/ server[p].pc \in DOMAIN After /\ (Write(p) \/ Commit(p) \/ Rollback(p))
  \/ \E o \in Port : Listen(p, o)
  \/ Publish(p)
  \/ server[p].pc = "numbered" /\ Stop(p)
  \/ CloseStore(p) \/ CompareDiscovery(p) \/ RemoveDiscovery(p) \/ Unlock(p) \/ Exit(p)

Next ==
  \/ \E p \in Server :
       \/ \E f \in Path : Start(p, f)
       \/ CheckDatabaseVersion(p) \/ BeginOwn(p) \/ Write(p) \/ Commit(p)
       \/ Rollback(p)
       \/ \E o \in Port : Listen(p, o)
       \/ Publish(p) \/ Stop(p) \/ CloseStore(p) \/ CompareDiscovery(p)
       \/ RemoveDiscovery(p) \/ Unlock(p) \/ Exit(p) \/ Crash(p)
       \/ \E c \in Client : Serve(p, c)
  \/ \E o \in Port : ForeignListens(o)
  \/ \E c \in Client :
       \/ Connect(c) \/ Post(c) \/ RequestFails(c)
       \/ \E k \in client[c].checks : HealthAnswered(c, k) \/ Checked(c, k)
  \/ OldWrite \/ OldStops \/ EditRoles \/ Author
  \/ \E m \in Migrator :
       \/ \E kind \in Kinds : PlanMigration(m, kind)
       \/ LockMigration(m) \/ CopyRoles(m) \/ BackUp(m) \/ PublishLayout(m)
       \/ EndMigration(m)

Spec == Init /\ [][Next]_vars
FairSpec == Spec /\ \A p \in Server : WF_vars(Proceeds(p))

-----------------------------------------------------------------------------
(* Properties.                                                             *)

HasStore(p) ==
  \/ server[p].pc \in (Starting \ {"locked"}) \cup {"serving", "shutdown", "stopping"}
  \/ server[p].job # None

\* When two processes have the database of the Project open, the earlier of
\* them has let go of the lock and has nothing but a transaction that began
\* before, over crashes, refused starts and shutdowns with a request running.
OneWriter ==
  \A p, q \in Server :
    HasStore(p) /\ HasStore(q) /\ server[p].id <= server[q].id
      => p = q \/ server[p].pc = "exiting"

\* While a controller serves, the discovery file names it: no process that
\* leaves removes the publication of the one that came after it.
LiveDiscovery ==
  \A p \in Server : server[p].pc = "serving" => discovery = Identity(p)

\* The epochs of one database follow the starts: no two controllers share one,
\* though a start may die on either side of the commit that gave it.
EpochsFollowStarts ==
  \A a, b \in numbered : a[1] = b[1] => (a[2] < b[2] <=> a[3] < b[3])

\* A write is committed only by the very controller its sender discovered,
\* whoever listens at that port by then and whatever epoch it has.
WritesReachDiscovered == accepted # None => accepted.sent = accepted.by

\* A database of pi-squad/1 outside the Project is only ever read by serve and
\* migrate, whatever --db names.
LegacyKept ==
  LegacyPath \in Path => store[LegacyPath].tables \in Old /\ store[LegacyPath].journal = "absent"

\* A migrated Project has the role files its manifest states and every row of
\* the old database, whatever was written and edited while it was prepared.
ManifestIsTrue ==
  layout.kind \in Kinds =>
    /\ layout.copied = layout.roles
    /\ layout.kind = "database" => store[StatePath].rows = store[LegacyPath].rows

\* What an adapter takes for the controller is never replaced by an earlier
\* one, in whatever order the checks it has started are answered.
KnownMovesForward ==
  [][\A c \in Client : client[c].known # None /\ client'[c].known # client[c].known
                         => client'[c].known.id > client[c].known.id]_vars

\* serve does not sit on the lock: it comes to serve, or lets go of it.
StartEnds ==
  \A p \in Server : lock = p ~> (server[p].pc = "serving" \/ lock # p)

\* The refusal of an old database is about an old database: never about one
\* that serve itself has made (database.go:40).
RefusedIsOld ==
  \A p \in Server : server[p].why = "migrate" => server[p].path = LegacyPath
=================================================================================
