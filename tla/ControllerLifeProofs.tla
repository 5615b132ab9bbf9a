-------------------------- MODULE ControllerLifeProofs --------------------------
(***************************************************************************)
(* Every safety property of ControllerLife, for any number of processes,   *)
(* migrations, adapters, ports and database paths.                         *)
(*                                                                         *)
(* The invariant IInv is built up in the order in which its parts rest on  *)
(* each other: types; a transaction runs only where one is begun, or on the *)
(* way out; the lock is held by whoever is on, so that a step finds all    *)
(* others off or exiting; ids are given in order, hence one writer, hence  *)
(* epochs; every copy of a publication is what its                         *)
(* process is, hence writes; the file has the newest copy, hence what an   *)
(* adapter knows.  The old database and the manifest are apart from these. *)
(***************************************************************************)
EXTENDS ControllerLife, TLAPS

Pcs == Starting \cup Leaving \cup {"off", "serving"}
Jobs == Discoveries \cup {None}
Whys == {"none", "journal", "migrate"}

LEMMA OffTyped ==
  /\ Off \in Servers
  /\ \A f \in Path, i \in 0..MaxStarts :
       [Off EXCEPT !.pc = "locked", !.id = i, !.path = f] \in Servers
<1>1. 0 \in 0..MaxStarts /\ StatePath \in Path /\ "off" \in Pcs /\ "locked" \in Pcs
  BY ControllerAssumption DEF ControllerAssumption, Pcs, Starting
<1>2. Off \in Servers
  BY <1>1 DEF Off, Servers, Pcs
<1>3. \A f \in Path, i \in 0..MaxStarts :
        [Off EXCEPT !.pc = "locked", !.id = i, !.path = f] \in Servers
  BY <1>1, <1>2 DEF Servers, Pcs
<1> QED
  BY <1>2, <1>3

LEMMA EditedServer ==
  ASSUME NEW s \in Servers
  PROVE  /\ \A x \in Pcs : [s EXCEPT !.pc = x] \in Servers
         /\ \A j \in Jobs : [s EXCEPT !.job = j] \in Servers
         /\ [s EXCEPT !.wrote = TRUE] \in Servers
         /\ \A j \in Jobs, x \in Pcs :
              [s EXCEPT !.job = j, !.wrote = FALSE, !.pc = x] \in Servers
         /\ \A w \in Whys, x \in Pcs : [s EXCEPT !.why = w, !.pc = x] \in Servers
         /\ \A o \in Port, x \in Pcs : [s EXCEPT !.pc = x, !.port = o] \in Servers
         /\ \A j \in Jobs, e \in Nat, x \in Pcs :
              [s EXCEPT !.job = j, !.wrote = FALSE, !.epoch = e, !.pc = x] \in Servers
BY DEF Servers, Pcs, Jobs, Whys

Tabled == Old \cup {"none", "registry", "team"}

LEMMA EditedStore ==
  ASSUME NEW s \in Stores
  PROVE  /\ \A b \in {"absent", "present"} : [s EXCEPT !.journal = b] \in Stores
         /\ \A t \in Tabled, e \in Nat :
              [s EXCEPT !.tables = t, !.epoch = e, !.journal = "absent"] \in Stores
         /\ \A n \in 0..MaxRows : [s EXCEPT !.rows = n] \in Stores
         /\ s.tables \in Tabled /\ s.epoch \in Nat /\ s.rows \in 0..MaxRows
BY DEF Stores, Tabled

LEMMA FreshTyped ==
  /\ Fresh \in Stores
  /\ \A t \in Tabled : [Fresh EXCEPT !.tables = t] \in Stores
  /\ \A t \in Tabled, n \in 0..MaxRows : [Fresh EXCEPT !.tables = t, !.rows = n] \in Stores
<1>1. 0 \in 0..MaxRows
  BY ControllerAssumption DEF ControllerAssumption
<1>2. Fresh \in Stores
  BY <1>1 DEF Fresh, Stores
<1>3. \A t \in Tabled : [Fresh EXCEPT !.tables = t] \in Stores
  BY <1>2 DEF Stores, Tabled
<1>4. \A t \in Tabled, n \in 0..MaxRows : [Fresh EXCEPT !.tables = t, !.rows = n] \in Stores
  BY <1>2 DEF Stores, Tabled
<1> QED
  BY <1>2, <1>3, <1>4

LEMMA CommittedTyped ==
  ASSUME NEW s \in Stores, NEW pc
  PROVE  Committed(s, pc) \in Stores /\ Epoch(s, pc) \in Nat
<1>1. Tables(s, pc) \in Tabled
  <2>1. s.tables \in Tabled
    BY EditedStore
  <2> QED
    BY <2>1, Zenon DEF Tables, Tabled
<1>2. Epoch(s, pc) \in Nat
  <2>1. s.epoch \in Nat
    BY EditedStore
  <2> QED
    BY <2>1 DEF Epoch
<1> QED
  BY <1>1, <1>2, EditedStore DEF Committed

LEMMA PcsAre ==
  /\ Starting = {"locked", "checked", "opened", "migrated", "frozen", "numbered", "listening"}
  /\ Leaving = {"shutdown", "stopping", "closed", "removing", "unlocking", "exiting"}
  /\ DOMAIN After = {"checked", "opened", "migrated", "frozen"}
  /\ \A x \in DOMAIN After : After[x] \in Starting
  /\ Starting \subseteq Pcs /\ Leaving \subseteq Pcs /\ "off" \in Pcs /\ "serving" \in Pcs
BY DEF Pcs, Starting, Leaving, After

LEMMA InitTyped == Init => TypeOK
<1> SUFFICES ASSUME Init PROVE TypeOK
  OBVIOUS
<1>1. Off \in Servers
  BY OffTyped
<1>2. store \in [Path -> Stores]
  BY FreshTyped DEF Init, Tabled
<1>3. [known |-> None, checks |-> {}, request |-> None] \in Clients
  BY DEF Clients
<1>4. Resting \in Migrations
  BY ControllerAssumption DEF ControllerAssumption, Resting, Migrations, Kinds
<1>5. layout \in Layouts
  BY ControllerAssumption DEF ControllerAssumption, Init, NoLayout, Layouts, Kinds
<1>6. server \in [Server -> Servers] /\ client \in [Client -> Clients] /\ migration \in [Migrator -> Migrations]
  BY <1>1, <1>3, <1>4 DEF Init
<1>7. starts \in 0..MaxStarts /\ roles \in {0, 1}
  BY ControllerAssumption DEF ControllerAssumption, Init
<1>8. oldWriter \in BOOLEAN
  BY DEF Init
<1> QED
  BY <1>2, <1>5, <1>6, <1>7, <1>8 DEF Init, TypeOK

LEMMA MovedServer ==
  ASSUME TypeOK, NEW p \in Server, NEW s \in Servers, server' = [server EXCEPT ![p] = s]
  PROVE  server' \in [Server -> Servers]
BY DEF TypeOK

LEMMA MovedStore ==
  ASSUME TypeOK, NEW f, NEW s, f \in Path => s \in Stores, store' = [store EXCEPT ![f] = s]
  PROVE  store' \in [Path -> Stores]
BY DEF TypeOK

LEMMA Typed ==
  ASSUME TypeOK, NEW p \in Server
  PROVE  /\ server[p] \in Servers /\ server[p].path \in Path /\ store[server[p].path] \in Stores
         /\ Identity(p) \in Discoveries
         /\ server[p].pc \in Pcs /\ server[p].why \in Whys /\ server[p].id \in 0..MaxStarts
<1>1. server[p] \in Servers
  BY DEF TypeOK
<1>2. server[p].path \in Path /\ server[p].pc \in Pcs /\ server[p].why \in Whys
  BY <1>1 DEF Servers, Pcs, Whys
<1>3. server[p].id \in 0..MaxStarts /\ server[p].epoch \in Nat /\ server[p].port \in Port \cup {None}
  BY <1>1 DEF Servers
<1>4. Identity(p) \in Discoveries
  BY <1>3 DEF Identity, Discoveries
<1> QED
  BY <1>1, <1>2, <1>3, <1>4 DEF TypeOK

LEMMA TypeStart ==
  ASSUME TypeOK, NEW p \in Server, NEW f \in Path, Start(p, f)
  PROVE  TypeOK'
<1>1. starts + 1 \in 0..MaxStarts
  BY ControllerAssumption DEF ControllerAssumption, TypeOK, Start
<1>2. server' \in [Server -> Servers]
  BY <1>1, OffTyped, MovedServer DEF Start
<1> QED
  BY <1>1, <1>2 DEF TypeOK, Start, project

LEMMA TypeCheck ==
  ASSUME TypeOK, NEW p \in Server, CheckDatabaseVersion(p)
  PROVE  TypeOK'
<1>1. PICK w \in Whys, x \in Pcs : server' = [server EXCEPT ![p] = [server[p] EXCEPT !.why = w, !.pc = x]]
  <2>1. Refusal(server[p].path) \in Whys
    BY DEF Refusal, Whys
  <2> QED
    BY <2>1, PcsAre DEF CheckDatabaseVersion
<1>2. server' \in [Server -> Servers]
  BY <1>1, Typed, EditedServer, MovedServer
<1> QED
  BY <1>2 DEF TypeOK, CheckDatabaseVersion, project

LEMMA TypeBegin ==
  ASSUME TypeOK, NEW p \in Server, NEW j \in Jobs, Begin(p, j)
  PROVE  server' \in [Server -> Servers]
BY Typed, EditedServer, MovedServer DEF Begin

LEMMA TypeBeginOwn ==
  ASSUME TypeOK, NEW p \in Server, BeginOwn(p)
  PROVE  TypeOK'
<1>1. server' \in [Server -> Servers]
  BY TypeBegin, Typed DEF BeginOwn, Jobs
<1> QED
  BY <1>1 DEF TypeOK, BeginOwn, project

LEMMA TypeWrite ==
  ASSUME TypeOK, NEW p \in Server, Write(p)
  PROVE  TypeOK'
<1>1. Journals(p) \subseteq {"absent", "present"}
  BY DEF Journals
<1>2. PICK b \in {"absent", "present"} :
        store' = [store EXCEPT ![server[p].path] = [store[server[p].path] EXCEPT !.journal = b]]
  BY <1>1 DEF Write
<1>3. store' \in [Path -> Stores]
  BY <1>2, Typed, EditedStore, MovedStore
<1>4. server' = [server EXCEPT ![p] = [server[p] EXCEPT !.wrote = TRUE]]
  BY DEF Write
<1>5. server' \in [Server -> Servers]
  BY <1>4, Typed, EditedServer, MovedServer
<1> QED
  BY <1>3, <1>5 DEF TypeOK, Write, project

LEMMA TypeCommit ==
  ASSUME TypeOK, NEW p \in Server, Commit(p)
  PROVE  TypeOK'
<1> DEFINE f == server[p].path
           e == IF server[p].pc = "frozen" THEN Epoch(store[f], server[p].pc) ELSE server[p].epoch
           x == IF server[p].pc \in DOMAIN After THEN After[server[p].pc] ELSE server[p].pc
<1>1. /\ store' = [store EXCEPT ![f] = Committed(store[f], server[p].pc)]
      /\ server' = [server EXCEPT ![p] = [server[p] EXCEPT !.job = None, !.wrote = FALSE,
                                                             !.epoch = e, !.pc = x]]
      /\ numbered' \in {numbered, numbered \cup {<<f, e, server[p].id>>}}
      /\ accepted' \in {accepted, [sent |-> server[p].job, by |-> Identity(p)]}
      /\ server[p].job # None
  BY DEF Commit
<1>2. e \in Nat /\ x \in Pcs
  <2>1. server[p].epoch \in Nat
    BY Typed DEF Servers
  <2> QED
    BY <2>1, Typed, CommittedTyped, PcsAre
<1>3. server' \in [Server -> Servers] /\ store' \in [Path -> Stores]
  BY <1>1, <1>2, Typed, CommittedTyped, EditedServer, MovedServer, MovedStore DEF Jobs
<1>4. numbered' \subseteq Path \X Nat \X (0..MaxStarts)
  BY <1>1, <1>2, Typed DEF TypeOK
<1>5. server[p].job \in Discoveries
  BY <1>1, Typed DEF Servers
<1>6. accepted' \in [sent : Discoveries, by : Discoveries] \cup {None}
  BY <1>1, <1>5, Typed DEF TypeOK
<1> QED
  BY <1>3, <1>4, <1>6 DEF TypeOK, Commit, project

\* The actions that only move the process p, its store, lock, port or file.
LEMMA TypeRest ==
  ASSUME TypeOK, NEW p \in Server,
         \/ Rollback(p) \/ Publish(p) \/ Stop(p) \/ CloseStore(p) \/ CompareDiscovery(p)
         \/ RemoveDiscovery(p) \/ Unlock(p) \/ Exit(p) \/ Crash(p)
         \/ \E o \in Port : Listen(p, o)
  PROVE  TypeOK'
<1> DEFINE s == server[p]
<1>1. Undone(p) \in [Path -> Stores]
  <2>1. Undone(p) = store \/ Undone(p) = [store EXCEPT ![s.path] = [store[s.path] EXCEPT !.journal = "absent"]]
    BY DEF Undone
  <2>2. [store[s.path] EXCEPT !.journal = "absent"] \in Stores
    BY Typed, EditedStore
  <2> QED
    BY <2>1, <2>2 DEF TypeOK
<1>2. Freed(p) \in [Port -> Server \cup {Foreign, None}] /\ Released(p) \in Server \cup {None}
  BY DEF TypeOK, Freed, Released
<1>3. CASE Rollback(p)
  <2>1. server' = [server EXCEPT ![p] = [s EXCEPT !.job = None, !.wrote = FALSE,
                      !.pc = IF s.pc \in Starting THEN "stopping" ELSE s.pc]]
    BY <1>3 DEF Rollback
  <2>2. server' \in [Server -> Servers]
    BY <2>1, Typed, EditedServer, MovedServer, PcsAre DEF Jobs
  <2> QED
    BY <1>1, <1>3, <2>2 DEF TypeOK, Rollback, project
<1>4. CASE Publish(p)
  <2>1. server' \in [Server -> Servers]
    BY <1>4, Typed, EditedServer, MovedServer, PcsAre DEF Publish
  <2> QED
    BY <1>4, <2>1, Typed DEF TypeOK, Publish, project
<1>5. CASE Stop(p)
  <2>1. server' \in [Server -> Servers]
    <3>1. PICK x \in Pcs : server' = [server EXCEPT ![p] = [s EXCEPT !.pc = x]]
      BY <1>5, PcsAre DEF Stop
    <3> QED
      BY <3>1, Typed, EditedServer, MovedServer
  <2> QED
    BY <1>2, <1>5, <2>1 DEF TypeOK, Stop, project
<1>6. CASE CloseStore(p)
  <2>1. server' \in [Server -> Servers]
    BY <1>6, Typed, EditedServer, MovedServer, PcsAre DEF CloseStore
  <2> QED
    BY <1>6, <2>1 DEF TypeOK, CloseStore, project
<1>7. CASE CompareDiscovery(p)
  <2>1. PICK x \in Pcs : server' = [server EXCEPT ![p] = [s EXCEPT !.pc = x]]
    BY <1>7, PcsAre DEF CompareDiscovery
  <2>2. server' \in [Server -> Servers]
    BY <2>1, Typed, EditedServer, MovedServer
  <2> QED
    BY <1>7, <2>2 DEF TypeOK, CompareDiscovery, project
<1>8. CASE RemoveDiscovery(p)
  <2>1. server' \in [Server -> Servers]
    BY <1>8, Typed, EditedServer, MovedServer, PcsAre DEF RemoveDiscovery
  <2> QED
    BY <1>8, <2>1 DEF TypeOK, RemoveDiscovery, project
<1>9. CASE Unlock(p)
  <2>1. server' \in [Server -> Servers]
    BY <1>9, Typed, EditedServer, MovedServer, PcsAre DEF Unlock
  <2> QED
    BY <1>2, <1>9, <2>1 DEF TypeOK, Unlock, project
<1>10. CASE Exit(p) \/ Crash(p)
  <2>1. Ends(p)
    BY <1>10 DEF Exit, Crash
  <2>2. server' \in [Server -> Servers]
    BY <2>1, OffTyped, MovedServer DEF Ends
  <2>3. store' \in [Path -> Stores]
    BY <1>1, <2>1 DEF Ends, TypeOK
  <2> QED
    BY <1>2, <1>10, <2>2, <2>3 DEF TypeOK, Exit, Crash, project
<1>11. ASSUME NEW o \in Port, Listen(p, o) PROVE TypeOK'
  <2>1. server' = [server EXCEPT ![p] = [s EXCEPT !.pc = "listening", !.port = o]]
    BY <1>11 DEF Listen
  <2>2. server' \in [Server -> Servers]
    BY <2>1, Typed, EditedServer, MovedServer, PcsAre
  <2> QED
    BY <1>11, <2>2 DEF TypeOK, Listen, project
<1> QED
  BY <1>3, <1>4, <1>5, <1>6, <1>7, <1>8, <1>9, <1>10, <1>11

LEMMA TypeClient ==
  ASSUME TypeOK, NEW c \in Client,
         \/ Connect(c) \/ Post(c) \/ RequestFails(c)
         \/ \E k \in client[c].checks : HealthAnswered(c, k) \/ Checked(c, k)
  PROVE  TypeOK'
<1> DEFINE r == client[c]
<1>1. /\ r \in Clients
      /\ r.known \in Discoveries \cup {None} /\ r.request \in Discoveries \cup {None}
      /\ r.checks \subseteq Checks
  BY DEF TypeOK, Clients
<1>2. /\ \A S \in SUBSET Checks : [r EXCEPT !.checks = S] \in Clients
      /\ \A S \in SUBSET Checks, d \in Discoveries \cup {None} :
           [r EXCEPT !.checks = S, !.known = d] \in Clients
      /\ \A d \in Discoveries \cup {None} : [r EXCEPT !.request = d] \in Clients
  BY <1>1 DEF Clients
<1>3. ASSUME NEW s \in Clients, client' = [client EXCEPT ![c] = s],
             UNCHANGED <<process, listener, project>>
      PROVE  TypeOK'
  BY <1>3 DEF TypeOK, process, project
<1>4. CASE Connect(c)
  <2>1. \A k \in Checks : [k EXCEPT !.newest = FALSE] \in Checks
    BY DEF Checks
  <2>2. Superseded(c) \subseteq Checks
    BY <1>1, <2>1 DEF Superseded
  <2>3. discovery # None => [d |-> discovery, newest |-> TRUE, answer |-> None] \in Checks
    BY DEF TypeOK, Checks
  <2>4. PICK S \in SUBSET Checks : client' = [client EXCEPT ![c] = [r EXCEPT !.checks = S]]
    BY <1>4, <2>2, <2>3 DEF Connect
  <2> QED
    BY <1>2, <1>3, <1>4, <2>4 DEF Connect
<1>5. ASSUME NEW k \in r.checks, HealthAnswered(c, k) PROVE TypeOK'
  <2>1. k \in Checks /\ k.d \in Discoveries /\ k.d.port \in Port \cup {None}
    BY <1>1 DEF Checks, Discoveries
  <2>2. Health(k.d.port) \in Discoveries
    <3>1. CASE listener[k.d.port] = Foreign
      <4>1. 0 \in 0..MaxStarts
        BY ControllerAssumption DEF ControllerAssumption
      <4> QED
        BY <2>1, <3>1, <4>1 DEF Health, Discoveries
    <3>2. CASE listener[k.d.port] # Foreign
      BY <1>5, <3>2, Typed DEF HealthAnswered, Answers, Health
    <3> QED
      BY <3>1, <3>2
  <2>3. [k EXCEPT !.answer = Health(k.d.port)] \in Checks
    BY <2>1, <2>2 DEF Checks
  <2>4. PICK S \in SUBSET Checks : client' = [client EXCEPT ![c] = [r EXCEPT !.checks = S]]
    BY <1>1, <1>5, <2>3 DEF HealthAnswered
  <2> QED
    BY <1>2, <1>3, <1>5, <2>4 DEF HealthAnswered
<1>6. ASSUME NEW k \in r.checks, Checked(c, k) PROVE TypeOK'
  <2>1. k.d \in Discoveries
    BY <1>1 DEF Checks
  <2> DEFINE S == r.checks \ {k}
             d == IF k.answer = k.d /\ Counts(k) THEN k.d ELSE r.known
  <2>2. client' = [client EXCEPT ![c] = [r EXCEPT !.checks = S, !.known = d]]
    BY <1>6 DEF Checked
  <2>3. S \in SUBSET Checks /\ d \in Discoveries \cup {None}
    BY <1>1, <2>1
  <2>4. [r EXCEPT !.checks = S, !.known = d] \in Clients
    BY <1>2, <2>3
  <2>5. UNCHANGED <<process, listener, project>>
    BY <1>6 DEF Checked
  <2> HIDE DEF S, d
  <2> QED
    BY <1>3, <2>2, <2>4, <2>5
<1>7. CASE Post(c)
  BY <1>1, <1>2, <1>3, <1>7 DEF Post
<1>8. CASE RequestFails(c)
  BY <1>2, <1>3, <1>8 DEF RequestFails
<1> QED
  BY <1>4, <1>5, <1>6, <1>7, <1>8

LEMMA TypeServe ==
  ASSUME TypeOK, NEW p \in Server, NEW c \in Client, Serve(p, c)
  PROVE  TypeOK'
<1>1. /\ client[c] \in Clients /\ client[c].request \in Jobs
      /\ [client[c] EXCEPT !.request = None] \in Clients
  BY DEF TypeOK, Clients, Jobs
<1>2. server' \in [Server -> Servers]
  BY <1>1, TypeBegin DEF Serve
<1>3. client' \in [Client -> Clients]
  BY <1>1 DEF Serve, TypeOK
<1> QED
  BY <1>2, <1>3 DEF TypeOK, Serve, project

LEMMA LegacyTyped ==
  ASSUME TypeOK, Migrator # {}
  PROVE  /\ LegacyPath \in Path /\ store[LegacyPath] \in Stores
         /\ store[LegacyPath].rows \in 0..MaxRows /\ store[LegacyPath].tables \in Tabled
<1>1. LegacyPath \in Path /\ store[LegacyPath] \in Stores
  BY ControllerAssumption DEF ControllerAssumption, TypeOK
<1> QED
  BY <1>1, EditedStore

LEMMA TypeMigration ==
  ASSUME TypeOK, NEW m \in Migrator,
         \/ \E kind \in Kinds : PlanMigration(m, kind)
         \/ LockMigration(m) \/ CopyRoles(m) \/ BackUp(m) \/ PublishLayout(m)
         \/ EndMigration(m)
  PROVE  TypeOK'
<1> DEFINE g == migration[m]
<1>1. /\ g \in Migrations /\ Resting \in Migrations
      /\ g.kind \in Kinds /\ g.roles \in {0, 1} /\ g.copied \in {0, 1}
      /\ g.rows \in 0..MaxRows
      /\ 0 \in 0..MaxRows /\ roles \in {0, 1}
  BY ControllerAssumption DEF ControllerAssumption, TypeOK, Migrations, Resting, Kinds
<1>2. ASSUME NEW r \in Migrations, Moves(m, r), migrationLock' \in Migrator \cup {None},
             UNCHANGED layout
      PROVE  TypeOK'
  BY <1>2 DEF Moves, TypeOK, process
<1>3. ASSUME NEW kind \in Kinds, PlanMigration(m, kind) PROVE TypeOK'
  <2>1. [Resting EXCEPT !.pc = "planned", !.roles = roles, !.kind = kind] \in Migrations
    BY <1>1 DEF Migrations
  <2> QED
    BY <1>2, <1>3, <2>1 DEF PlanMigration, TypeOK
<1>4. CASE LockMigration(m)
  <2>1. [g EXCEPT !.pc = "staging"] \in Migrations
    BY <1>1 DEF Migrations
  <2> QED
    BY <1>2, <1>4, <2>1 DEF LockMigration
<1>5. CASE CopyRoles(m)
  <2>1. [g EXCEPT !.pc = "copied", !.copied = roles] \in Migrations
    BY <1>1 DEF Migrations
  <2> QED
    BY <1>2, <1>5, <2>1 DEF CopyRoles, TypeOK
<1>6. CASE BackUp(m)
  <2> DEFINE n == IF g.kind = "database" THEN store[LegacyPath].rows ELSE 0
  <2>1. n \in 0..MaxRows
    BY <1>1, LegacyTyped
  <2>2. [g EXCEPT !.pc = "prepared", !.rows = n] \in Migrations
    BY <1>1, <2>1 DEF Migrations
  <2> QED
    BY <1>2, <1>6, <2>2 DEF BackUp, TypeOK
<1>7. CASE PublishLayout(m)
  <2> DEFINE t == store[LegacyPath].tables
  <2>1. layout' \in Layouts
    BY <1>1, <1>7 DEF PublishLayout, Layouts
  <2>2. store' \in [Path -> Stores]
    BY <1>1, <1>7, LegacyTyped, FreshTyped, MovedStore DEF PublishLayout, TypeOK
  <2>3. migration' \in [Migrator -> Migrations]
    BY <1>1, <1>7 DEF PublishLayout, TypeOK
  <2> QED
    BY <1>7, <2>1, <2>2, <2>3 DEF TypeOK, PublishLayout
<1>8. CASE EndMigration(m)
  BY <1>1, <1>2, <1>8 DEF EndMigration, TypeOK
<1> QED
  BY <1>3, <1>4, <1>5, <1>6, <1>7, <1>8

LEMMA TypeOthers ==
  ASSUME TypeOK,
         \/ OldWrite \/ OldStops \/ EditRoles \/ Author
         \/ \E o \in Port : ForeignListens(o)
  PROVE  TypeOK'
<1>1. CASE OldStops
  BY <1>1 DEF OldStops, TypeOK, process
<1>5. CASE OldWrite
  <2>1. store' = [store EXCEPT ![LegacyPath] =
                    [store[LegacyPath] EXCEPT !.rows = store[LegacyPath].rows + 1]]
    BY <1>5 DEF OldWrite
  <2>2. LegacyPath \in Path => [store[LegacyPath] EXCEPT !.rows = store[LegacyPath].rows + 1] \in Stores
    <3> SUFFICES ASSUME LegacyPath \in Path
                 PROVE  [store[LegacyPath] EXCEPT !.rows = store[LegacyPath].rows + 1] \in Stores
      OBVIOUS
    <3>1. store[LegacyPath] \in Stores /\ store[LegacyPath].rows \in 0..MaxRows
      BY EditedStore DEF TypeOK
    <3>2. store[LegacyPath].rows + 1 \in 0..MaxRows
      BY <1>5, <3>1, ControllerAssumption DEF ControllerAssumption, OldWrite
    <3> QED
      BY <3>1, <3>2, EditedStore
  <2>3. store' \in [Path -> Stores]
    BY <2>1, <2>2, MovedStore
  <2> QED
    BY <1>5, <2>3 DEF OldWrite, TypeOK, project
<1>2. CASE EditRoles
  BY <1>2 DEF EditRoles, TypeOK, process
<1>3. CASE Author
  <2>1. layout' \in Layouts
    BY ControllerAssumption, <1>3 DEF ControllerAssumption, Author, NoLayout, Layouts
  <2> QED
    BY <1>3, <2>1 DEF Author, TypeOK, process
<1>4. ASSUME NEW o \in Port, ForeignListens(o) PROVE TypeOK'
  BY <1>4 DEF ForeignListens, TypeOK, process, project
<1> QED
  BY <1>1, <1>2, <1>3, <1>4, <1>5

LEMMA TypeStep == TypeOK /\ [Next]_vars => TypeOK'
<1> SUFFICES ASSUME TypeOK, [Next]_vars PROVE TypeOK'
  OBVIOUS
<1>1. CASE UNCHANGED vars
  BY <1>1 DEF vars, process, project, TypeOK
<1>2. CASE Next
  BY <1>2, TypeStart, TypeCheck, TypeBeginOwn, TypeWrite, TypeCommit, TypeRest, TypeClient, TypeServe,
     TypeMigration, TypeOthers DEF Next
<1> QED
  BY <1>1, <1>2

\* Every variable keeps its type over crashes, migrations and late answers.
THEOREM Typing == Spec => []TypeOK
BY InitTyped, TypeStep, PTL DEF Spec

-----------------------------------------------------------------------------
(* What the steps of serve do to the process, field by field.              *)

Others(p) == \A q \in Server \ {p} : server'[q] = server[q]
Stays(p) == server'[p].id = server[p].id /\ server'[p].path = server[p].path
Named(p) == /\ Stays(p) /\ server'[p].epoch = server[p].epoch
            /\ server'[p].port = server[p].port
Ended(p) == server'[p].job = None /\ ~server'[p].wrote
Kept(p) == server'[p].job = server[p].job /\ server'[p].wrote = server[p].wrote

ServeStep(p) ==
  \/ \E f \in Path : Start(p, f)
  \/ CheckDatabaseVersion(p) \/ BeginOwn(p) \/ Write(p) \/ Commit(p) \/ Rollback(p)
  \/ \E o \in Port : Listen(p, o)
  \/ Publish(p) \/ Stop(p) \/ CloseStore(p) \/ CompareDiscovery(p)
  \/ RemoveDiscovery(p) \/ Unlock(p) \/ Exit(p) \/ Crash(p)
  \/ \E c \in Client : Serve(p, c)

\* The steps of everyone else.
Quiet == UNCHANGED <<server, lock, starts, discovery, numbered, accepted>>

LEMMA StepKinds ==
  ASSUME [Next]_vars
  PROVE  \/ UNCHANGED process
         \/ OldWrite
         \/ \E m \in Migrator : PublishLayout(m)
         \/ \E p \in Server : ServeStep(p)
<1>1. CASE UNCHANGED vars
  BY <1>1 DEF vars
<1>2. CASE \E o \in Port : ForeignListens(o)
  BY <1>2 DEF ForeignListens
<1>3. CASE \E c \in Client : \/ Connect(c) \/ Post(c) \/ RequestFails(c)
                             \/ \E k \in client[c].checks : HealthAnswered(c, k) \/ Checked(c, k)
  BY <1>3 DEF Connect, Post, RequestFails, HealthAnswered, Checked
<1>4. CASE OldWrite \/ OldStops \/ EditRoles \/ Author
  BY <1>4 DEF OldStops, EditRoles, Author
<1>5. CASE \E m \in Migrator :
             \/ \E kind \in Kinds : PlanMigration(m, kind)
             \/ LockMigration(m) \/ CopyRoles(m) \/ BackUp(m) \/ PublishLayout(m)
             \/ EndMigration(m)
  BY <1>5 DEF PlanMigration, LockMigration, CopyRoles, BackUp, EndMigration, Moves
<1> QED
  BY <1>1, <1>2, <1>3, <1>4, <1>5 DEF Next, ServeStep

LEMMA QuietSteps ==
  ASSUME [Next]_vars
  PROVE  Quiet \/ \E p \in Server : ServeStep(p)
BY StepKinds DEF Quiet, process, OldWrite, PublishLayout

LEMMA StartEffect ==
  ASSUME TypeOK, NEW p \in Server, NEW f \in Path, Start(p, f)
  PROVE  /\ Others(p) /\ server[p].pc = "off" /\ server'[p].pc = "locked" /\ Ended(p)
         /\ server'[p].id = starts' /\ server'[p].path = f
<1>1. server \in [Server -> Servers] /\ server[p] \in Servers
  BY DEF TypeOK
<1> QED
  BY <1>1 DEF Servers, Start, Off, Others, Stays, Named, Ended, Kept

LEMMA CheckEffect ==
  ASSUME TypeOK, NEW p \in Server, CheckDatabaseVersion(p)
  PROVE  /\ Others(p) /\ Named(p) /\ Kept(p)
         /\ server[p].pc = "locked" /\ server'[p].pc \in {"checked", "stopping"}
<1>1. server \in [Server -> Servers] /\ server[p] \in Servers
  BY DEF TypeOK
<1> QED
  BY <1>1 DEF Servers, CheckDatabaseVersion, Others, Stays, Named, Ended, Kept

LEMMA BeginEffect ==
  ASSUME TypeOK, NEW p \in Server, BeginOwn(p)
  PROVE  /\ Others(p) /\ Named(p) /\ server'[p].job = Identity(p)
         /\ server'[p].wrote = server[p].wrote
         /\ server'[p].pc = server[p].pc /\ server[p].pc \in MayBegin
<1>1. server \in [Server -> Servers] /\ server[p] \in Servers
  BY DEF TypeOK
<1> QED
  BY <1>1 DEF Servers, BeginOwn, Begin, Others, Stays, Named, Ended, Kept

LEMMA WriteEffect ==
  ASSUME TypeOK, NEW p \in Server, Write(p)
  PROVE  /\ Others(p) /\ Named(p) /\ server'[p].job = server[p].job /\ server[p].job # None
         /\ ~server[p].wrote /\ server'[p].wrote /\ server'[p].pc = server[p].pc
<1>1. server \in [Server -> Servers] /\ server[p] \in Servers
  BY DEF TypeOK
<1> QED
  BY <1>1 DEF Servers, Write, Others, Stays, Named, Ended, Kept

LEMMA CommitEffect ==
  ASSUME TypeOK, NEW p \in Server, Commit(p)
  PROVE  /\ Others(p) /\ Stays(p) /\ Ended(p)
         /\ server'[p].port = server[p].port
         /\ server[p].pc # "frozen" => server'[p].epoch = server[p].epoch
         /\ server'[p].pc = IF server[p].pc \in DOMAIN After THEN After[server[p].pc]
                            ELSE server[p].pc
<1>1. server \in [Server -> Servers] /\ server[p] \in Servers
  BY DEF TypeOK
<1> QED
  BY <1>1 DEF Servers, Commit, Others, Stays, Named, Ended, Kept

LEMMA RollbackEffect ==
  ASSUME TypeOK, NEW p \in Server, Rollback(p)
  PROVE  /\ Others(p) /\ Named(p) /\ Ended(p)
         /\ server'[p].pc = IF server[p].pc \in Starting THEN "stopping" ELSE server[p].pc
<1>1. server \in [Server -> Servers] /\ server[p] \in Servers
  BY DEF TypeOK
<1> QED
  BY <1>1 DEF Servers, Rollback, Others, Stays, Named, Ended, Kept

LEMMA ListenEffect ==
  ASSUME TypeOK, NEW p \in Server, NEW o \in Port, Listen(p, o)
  PROVE  /\ Others(p) /\ Stays(p) /\ Kept(p)
         /\ server[p].pc = "numbered" /\ server'[p].pc = "listening"
<1>1. server \in [Server -> Servers] /\ server[p] \in Servers
  BY DEF TypeOK
<1> QED
  BY <1>1 DEF Servers, Listen, Others, Stays, Named, Ended, Kept

LEMMA PublishEffect ==
  ASSUME TypeOK, NEW p \in Server, Publish(p)
  PROVE  /\ Others(p) /\ Named(p) /\ Kept(p)
         /\ server[p].pc = "listening" /\ server'[p].pc = "serving"
<1>1. server \in [Server -> Servers] /\ server[p] \in Servers
  BY DEF TypeOK
<1> QED
  BY <1>1 DEF Servers, Publish, Others, Stays, Named, Ended, Kept

LEMMA StopEffect ==
  ASSUME TypeOK, NEW p \in Server, Stop(p)
  PROVE  /\ Others(p) /\ Named(p) /\ Kept(p)
         /\ server[p].pc \in Starting \cup {"serving"}
         /\ server'[p].pc = IF server[p].pc = "serving" THEN "shutdown" ELSE "stopping"
<1>1. server \in [Server -> Servers] /\ server[p] \in Servers
  BY DEF TypeOK
<1> QED
  BY <1>1 DEF Servers, Stop, Others, Stays, Named, Ended, Kept

LEMMA CloseEffect ==
  ASSUME TypeOK, NEW p \in Server, CloseStore(p)
  PROVE  /\ Others(p) /\ Named(p) /\ Kept(p)
         /\ server[p].pc \in {"shutdown", "stopping"} /\ server'[p].pc = "closed"
<1>1. server \in [Server -> Servers] /\ server[p] \in Servers
  BY DEF TypeOK
<1> QED
  BY <1>1 DEF Servers, CloseStore, Others, Stays, Named, Ended, Kept

LEMMA CompareEffect ==
  ASSUME TypeOK, NEW p \in Server, CompareDiscovery(p)
  PROVE  /\ Others(p) /\ Named(p) /\ Kept(p)
         /\ server[p].pc = "closed" /\ server'[p].pc \in {"removing", "unlocking"}
<1>1. server \in [Server -> Servers] /\ server[p] \in Servers
  BY DEF TypeOK
<1> QED
  BY <1>1 DEF Servers, CompareDiscovery, Others, Stays, Named, Ended, Kept

LEMMA RemoveEffect ==
  ASSUME TypeOK, NEW p \in Server, RemoveDiscovery(p)
  PROVE  /\ Others(p) /\ Named(p) /\ Kept(p)
         /\ server[p].pc = "removing" /\ server'[p].pc = "unlocking"
<1>1. server \in [Server -> Servers] /\ server[p] \in Servers
  BY DEF TypeOK
<1> QED
  BY <1>1 DEF Servers, RemoveDiscovery, Others, Stays, Named, Ended, Kept

LEMMA UnlockEffect ==
  ASSUME TypeOK, NEW p \in Server, Unlock(p)
  PROVE  /\ Others(p) /\ Named(p) /\ Kept(p)
         /\ server[p].pc = "unlocking" /\ server'[p].pc = "exiting"
<1>1. server \in [Server -> Servers] /\ server[p] \in Servers
  BY DEF TypeOK
<1> QED
  BY <1>1 DEF Servers, Unlock, Others, Stays, Named, Ended, Kept

LEMMA OffEffect ==
  ASSUME TypeOK, NEW p \in Server, Exit(p) \/ Crash(p)
  PROVE  /\ Others(p) /\ Ended(p) /\ server'[p].path = StatePath
         /\ server[p].pc # "off" /\ server'[p].pc = "off"
<1>1. server \in [Server -> Servers] /\ server[p] \in Servers
  BY DEF TypeOK
<1> QED
  BY <1>1 DEF Servers, Exit, Crash, Ends, Off, Others, Stays, Named, Ended, Kept

LEMMA ServeEffect ==
  ASSUME TypeOK, NEW p \in Server, NEW c \in Client, Serve(p, c)
  PROVE  /\ Others(p) /\ Named(p) /\ server'[p].job = client[c].request
         /\ server'[p].wrote = server[p].wrote
         /\ server[p].pc \in {"serving", "shutdown"} /\ server'[p].pc = server[p].pc
<1>1. server \in [Server -> Servers] /\ server[p] \in Servers
  BY DEF TypeOK
<1> QED
  BY <1>1 DEF Servers, Serve, Begin, Others, Stays, Named, Ended, Kept

-----------------------------------------------------------------------------
(* A transaction runs only where one can have been begun, or after Shutdown *)
(* has given up on it.                                                     *)

Outlasting == {"closed", "removing", "unlocking", "exiting"}
Working == MayBegin \cup Outlasting
JobInv == \A p \in Server : /\ server[p].job # None => server[p].pc \in Working
                            /\ server[p].wrote => server[p].job # None

LEMMA WorkingIs ==
  /\ Working = {"checked", "opened", "migrated", "frozen", "serving", "shutdown", "closed",
                "removing", "unlocking", "exiting"}
  /\ "off" \notin Working
BY DEF Working, MayBegin, Outlasting, After

LEMMA JobStep == ASSUME TypeOK, JobInv, [Next]_vars PROVE JobInv'
<1>1. CASE Quiet
  BY <1>1 DEF Quiet, JobInv
<1>2. ASSUME NEW p \in Server, ServeStep(p) PROVE JobInv'
  <2>1. ASSUME Others(p), server'[p].job # None => server'[p].pc \in Working,
               server'[p].wrote => server'[p].job # None
        PROVE JobInv'
    BY <2>1 DEF JobInv, Others
  <2>2. ASSUME Others(p), Ended(p) PROVE JobInv'
    BY <2>1, <2>2 DEF Ended
  <2>3. ASSUME NEW f \in Path, Start(p, f) PROVE JobInv'
    BY <2>2, <2>3, StartEffect
  <2>4. CASE Commit(p) \/ Rollback(p) \/ Exit(p) \/ Crash(p)
    BY <2>2, <2>4, CommitEffect, RollbackEffect, OffEffect
  <2>5. CASE BeginOwn(p)
    <3>1. server[p].job = None
      BY <2>5 DEF BeginOwn, Begin
    <3> QED
      BY <2>1, <2>5, <3>1, BeginEffect DEF Working, JobInv
  <2>6. ASSUME NEW c \in Client, Serve(p, c) PROVE JobInv'
    <3>1. server[p].job = None
      BY <2>6 DEF Serve, Begin
    <3> QED
      BY <2>1, <2>6, <3>1, ServeEffect DEF Working, MayBegin, JobInv
  <2>7. ASSUME Others(p), Kept(p), server[p].pc \notin Working \/ server'[p].pc \in Working
        PROVE  JobInv'
    BY <2>1, <2>7 DEF JobInv, Kept
  <2>8. CASE CheckDatabaseVersion(p)
    BY <2>7, <2>8, CheckEffect, WorkingIs
  <2>9. ASSUME NEW o \in Port, Listen(p, o) PROVE JobInv'
    BY <2>7, <2>9, ListenEffect, WorkingIs
  <2>10. CASE Publish(p)
    BY <2>7, <2>10, PublishEffect, WorkingIs
  <2>11. CASE Stop(p)
    <3>1. server[p].pc = "serving" \/ server[p].job = None
      BY <2>11 DEF Stop
    <3> QED
      BY <2>1, <2>11, <3>1, StopEffect, WorkingIs DEF JobInv, Kept
  <2>12. CASE CloseStore(p) \/ CompareDiscovery(p) \/ RemoveDiscovery(p) \/ Unlock(p)
    BY <2>7, <2>12, CloseEffect, CompareEffect, RemoveEffect, UnlockEffect, WorkingIs
  <2>13. CASE Write(p)
    BY <2>1, <2>13, WriteEffect DEF JobInv
  <2> QED
    BY <1>2, <2>3, <2>4, <2>5, <2>6, <2>8, <2>9, <2>10, <2>11, <2>12, <2>13 DEF ServeStep
<1> QED
  BY <1>1, <1>2, QuietSteps

-----------------------------------------------------------------------------
(* The lock.  Who is on holds it, so a step of one process finds the others *)
(* off, or exiting with nothing left but a transaction.                    *)

Gone == {"off", "exiting"}
LockInv == \A p \in Server : server[p].pc \notin Gone <=> lock = p

LEMMA LockStep == ASSUME TypeOK, JobInv, LockInv, [Next]_vars PROVE LockInv'
<1>1. CASE Quiet
  BY <1>1 DEF Quiet, LockInv
<1>2. ASSUME NEW p \in Server, ServeStep(p) PROVE LockInv'
  <2>1. ASSUME NEW f \in Path, Start(p, f) PROVE LockInv'
    <3>1. lock = None /\ lock' = p /\ None \notin Server
      BY <2>1, ControllerAssumption DEF ControllerAssumption, Start
    <3> QED
      BY <2>1, <3>1, StartEffect DEF LockInv, Others, Gone
  <2>2. CASE Unlock(p) \/ Crash(p)
    <3>1. lock = p /\ lock' = None /\ None \notin Server
      BY <2>2, ControllerAssumption
         DEF ControllerAssumption, Unlock, Crash, Released, LockInv, Gone
    <3> QED
      BY <2>2, <3>1, OffEffect, UnlockEffect DEF LockInv, Others, Gone
  <2>3. ASSUME lock' = lock, Others(p), server[p].pc \in Gone <=> server'[p].pc \in Gone
        PROVE  LockInv'
    BY <2>3 DEF LockInv, Others
  <2>4. CASE CheckDatabaseVersion(p)
    BY <2>3, <2>4, CheckEffect DEF CheckDatabaseVersion, Gone
  <2>5. CASE BeginOwn(p)
    BY <2>3, <2>5, BeginEffect DEF BeginOwn
  <2>6. CASE Commit(p)
    <3>1. server[p].pc \in Gone <=> server'[p].pc \in Gone
      BY <2>6, CommitEffect, PcsAre DEF Gone
    <3> QED
      BY <2>3, <2>6, <3>1, CommitEffect DEF Commit
  <2>7. CASE Rollback(p)
    <3>1. server[p].pc \in Gone <=> server'[p].pc \in Gone
      BY <2>7, RollbackEffect, PcsAre DEF Gone
    <3> QED
      BY <2>3, <2>7, <3>1, RollbackEffect DEF Rollback
  <2>8. ASSUME NEW o \in Port, Listen(p, o) PROVE LockInv'
    BY <2>3, <2>8, ListenEffect DEF Listen, Gone
  <2>9. CASE Publish(p)
    BY <2>3, <2>9, PublishEffect DEF Publish, Gone
  <2>10. CASE Stop(p)
    <3>1. server[p].pc \notin Gone /\ server'[p].pc \notin Gone
      BY <2>10, StopEffect, PcsAre DEF Gone
    <3>2. lock' = lock /\ Others(p)
      BY <2>10, StopEffect DEF Stop
    <3> QED
      BY <2>3, <3>1, <3>2
  <2>11. CASE CloseStore(p)
    BY <2>3, <2>11, CloseEffect DEF CloseStore, Gone
  <2>12. CASE CompareDiscovery(p)
    BY <2>3, <2>12, CompareEffect DEF CompareDiscovery, Gone
  <2>13. CASE RemoveDiscovery(p)
    BY <2>3, <2>13, RemoveEffect DEF RemoveDiscovery, Gone
  <2>14. ASSUME NEW c \in Client, Serve(p, c) PROVE LockInv'
    BY <2>3, <2>14, ServeEffect DEF Serve
  <2>15. CASE Write(p)
    BY <2>3, <2>15, WriteEffect DEF Write
  <2>16. CASE Exit(p)
    <3>1. server[p].pc = "exiting" /\ lock' = lock
      BY <2>16 DEF Exit
    <3> QED
      BY <2>3, <2>16, <3>1, OffEffect DEF Gone
  <2> QED
    BY <1>2, <2>1, <2>2, <2>4, <2>5, <2>6, <2>7, <2>8, <2>9, <2>10, <2>11, <2>12, <2>13, <2>14,
       <2>15, <2>16 DEF ServeStep
<1> QED
  BY <1>1, <1>2, QuietSteps

LEMMA OthersOff ==
  ASSUME LockInv, NEW p \in Server, server[p].pc \notin Gone
  PROVE  lock = p /\ \A q \in Server \ {p} : server[q].pc \in Gone
BY DEF LockInv

-----------------------------------------------------------------------------
(* The discovery file.                                                     *)

LEMMA LiveStep ==
  ASSUME TypeOK, JobInv, LockInv, LiveDiscovery, [Next]_vars
  PROVE  LiveDiscovery'
<1>1. CASE Quiet
  BY <1>1 DEF Quiet, LiveDiscovery, Identity
<1>2. ASSUME NEW p \in Server, ServeStep(p) PROVE LiveDiscovery'
  <2>1. ASSUME Others(p), discovery' = discovery,
               server'[p].pc = "serving" => Named(p) /\ server[p].pc = "serving"
        PROVE  LiveDiscovery'
    BY <2>1 DEF LiveDiscovery, Others, Named, Stays, Identity
  <2>2. ASSUME Others(p), server'[p].pc # "serving", server[p].pc \notin Gone
        PROVE  LiveDiscovery'
    BY <2>2, OthersOff DEF LiveDiscovery, Others, Gone
  <2>3. ASSUME NEW f \in Path, Start(p, f) PROVE LiveDiscovery'
    BY <2>1, <2>3, StartEffect DEF Start
  <2>4. CASE CheckDatabaseVersion(p) \/ Stop(p) \/ CloseStore(p) \/ CompareDiscovery(p)
             \/ RemoveDiscovery(p) \/ Unlock(p)
    <3>1. server[p].pc \notin Gone /\ server'[p].pc # "serving" /\ Others(p)
      BY <2>4, PcsAre, CheckEffect, StopEffect, CloseEffect, CompareEffect, RemoveEffect,
         UnlockEffect DEF Gone
    <3> QED
      BY <2>2, <3>1
  <2>5. CASE BeginOwn(p)
    BY <2>1, <2>5, BeginEffect DEF BeginOwn
  <2>6. CASE Commit(p)
    <3>1. server'[p].pc = "serving" => Named(p) /\ server[p].pc = "serving"
      BY <2>6, CommitEffect, PcsAre DEF Named
    <3> QED
      BY <2>1, <2>6, <3>1, CommitEffect DEF Commit
  <2>7. CASE Rollback(p)
    <3>1. server'[p].pc = "serving" => server[p].pc = "serving"
      BY <2>7, RollbackEffect
    <3> QED
      BY <2>1, <2>7, <3>1, RollbackEffect DEF Rollback
  <2>8. ASSUME NEW o \in Port, Listen(p, o) PROVE LiveDiscovery'
    BY <2>1, <2>8, ListenEffect DEF Listen
  <2>9. CASE Publish(p)
    <3>1. discovery' = Identity(p)' /\ server[p].pc \notin Gone /\ Others(p)
      BY <2>9, PublishEffect DEF Publish, Identity, Named, Stays, Gone
    <3> QED
      BY <3>1, OthersOff DEF LiveDiscovery, Others, Gone
  <2>10. ASSUME NEW c \in Client, Serve(p, c) PROVE LiveDiscovery'
    BY <2>1, <2>10, ServeEffect DEF Serve
  <2>11. CASE Write(p)
    BY <2>1, <2>11, WriteEffect DEF Write
  <2>12. CASE Exit(p) \/ Crash(p)
    <3>1. discovery' = discovery
      BY <2>12 DEF Exit, Crash
    <3> QED
      BY <2>1, <2>12, <3>1, OffEffect
  <2> QED
    BY <1>2, <2>3, <2>4, <2>5, <2>6, <2>7, <2>8, <2>9, <2>10, <2>11, <2>12 DEF ServeStep
<1> QED
  BY <1>1, <1>2, QuietSteps

-----------------------------------------------------------------------------
(* Ids are given in order: whoever holds the lock has the last one, and no *)
(* two of those that have not ended have the same.                         *)

LastInv ==
  /\ \A p \in Server : server[p].pc # "off" => server[p].id \in 1..starts
  /\ \A p \in Server : server[p].pc \notin Gone => server[p].id = starts
  /\ \A p, q \in Server : p # q /\ server[p].pc # "off" /\ server[q].pc # "off"
                            => server[p].id # server[q].id
  /\ layout.kind = "absent" => starts = 0

LEMMA LastStep ==
  ASSUME TypeOK, JobInv, LockInv, LastInv, [Next]_vars
  PROVE  LastInv'
<1>1. layout.kind # "absent" => layout'.kind # "absent"
  <2>1. CASE UNCHANGED layout
    BY <2>1
  <2>2. CASE Author
    BY <2>2 DEF Author
  <2>3. ASSUME NEW m \in Migrator, PublishLayout(m) PROVE layout.kind = "absent"
    BY <2>3 DEF PublishLayout
  <2>4. UNCHANGED layout \/ Author \/ \E m \in Migrator : PublishLayout(m)
    <3>1. CASE UNCHANGED vars
      BY <3>1 DEF vars, project
    <3>2. CASE \E p \in Server : ServeStep(p)
      BY <3>2 DEF ServeStep, Start, CheckDatabaseVersion, BeginOwn, Write, Commit, Rollback,
                  Listen, Publish, Stop, CloseStore, CompareDiscovery, RemoveDiscovery, Unlock,
                  Exit, Crash, Serve, project
    <3>3. CASE \E c \in Client :
                 \/ Connect(c) \/ Post(c) \/ RequestFails(c)
                 \/ \E k \in client[c].checks : HealthAnswered(c, k) \/ Checked(c, k)
      BY <3>3 DEF Connect, Post, RequestFails, HealthAnswered, Checked, project
    <3>4. CASE \/ OldWrite \/ OldStops \/ EditRoles \/ Author
               \/ \E o \in Port : ForeignListens(o)
      BY <3>4 DEF OldWrite, OldStops, EditRoles, ForeignListens, project
    <3>5. CASE \E m \in Migrator :
                 \/ \E kind \in Kinds : PlanMigration(m, kind)
                 \/ LockMigration(m) \/ CopyRoles(m) \/ BackUp(m) \/ PublishLayout(m)
                 \/ EndMigration(m)
      BY <3>5 DEF PlanMigration, LockMigration, CopyRoles, BackUp, EndMigration
    <3> QED
      BY <3>1, <3>2, <3>3, <3>4, <3>5 DEF Next, ServeStep
  <2> QED
    BY <2>1, <2>2, <2>3, <2>4
<1>2. CASE Quiet
  BY <1>1, <1>2 DEF Quiet, LastInv
<1>3. ASSUME NEW p \in Server, ServeStep(p) PROVE LastInv'
  <2>1. ASSUME starts' = starts, Others(p),
               \/ server'[p].pc = "off"
               \/ /\ server'[p].id = server[p].id /\ server[p].pc # "off"
                  /\ server[p].pc \in Gone => server'[p].pc \in Gone
        PROVE  LastInv'
    BY <1>1, <2>1 DEF LastInv, Others, Gone
  <2>2. ASSUME NEW f \in Path, Start(p, f) PROVE LastInv'
    <3>1. \A q \in Server : server[q].pc \in Gone
      BY <2>2, ControllerAssumption DEF ControllerAssumption, Start, LockInv
    <3>2. layout.kind # "absent"
      BY <2>2 DEF Start
    <3>3. Others(p) /\ server'[p].id = starts'
      BY <2>2, StartEffect
    <3>4. starts \in Nat /\ starts' = starts + 1
      BY <2>2 DEF Start, TypeOK
    <3>5. \A q \in Server \ {p} : /\ server'[q] = server[q] /\ server'[q].pc \in Gone
                                  /\ server[q].pc # "off" => server[q].id \in 1..starts
      BY <3>1, <3>3 DEF LastInv, Others
    <3>6. starts' \in 1..starts' /\ 1..starts \subseteq 1..starts' /\ starts' \notin 1..starts
      BY <3>4
    <3> QED
      BY <1>1, <3>2, <3>3, <3>5, <3>6 DEF LastInv
  <2>3. CASE Exit(p) \/ Crash(p)
    BY <2>1, <2>3, OffEffect DEF Exit, Crash
  <2>4. CASE Commit(p) \/ Rollback(p) \/ Write(p)
    <3>1. server[p].pc # "off"
      BY <2>4, WorkingIs DEF Commit, Rollback, Write, JobInv
    <3>2. server[p].pc \in Gone => server'[p].pc \in Gone
      BY <2>4, CommitEffect, RollbackEffect, WriteEffect, PcsAre DEF Gone
    <3>3. starts' = starts /\ Others(p) /\ Stays(p)
      BY <2>4, CommitEffect, RollbackEffect, WriteEffect DEF Commit, Rollback, Write, Named
    <3> QED
      BY <2>1, <3>1, <3>2, <3>3 DEF Stays
  <2>5. CASE CheckDatabaseVersion(p) \/ BeginOwn(p) \/ Publish(p) \/ Stop(p)
             \/ CloseStore(p) \/ CompareDiscovery(p) \/ RemoveDiscovery(p) \/ Unlock(p)
             \/ (\E o \in Port : Listen(p, o)) \/ \E c \in Client : Serve(p, c)
    <3>1. server[p].pc \notin Gone /\ Others(p) /\ Stays(p)
      BY <2>5, PcsAre, CheckEffect, BeginEffect, ListenEffect, PublishEffect, StopEffect,
         CloseEffect, CompareEffect, RemoveEffect, UnlockEffect, ServeEffect
         DEF Named, Gone, MayBegin
    <3>2. starts' = starts
      BY <2>5 DEF CheckDatabaseVersion, BeginOwn, Publish, Stop, CloseStore, CompareDiscovery,
                  RemoveDiscovery, Unlock, Listen, Serve
    <3> QED
      BY <2>1, <3>1, <3>2 DEF Stays, Gone
  <2> QED
    BY <1>3, <2>2, <2>3, <2>4, <2>5 DEF ServeStep
<1> QED
  BY <1>2, <1>3, QuietSteps

LEMMA LockIsOneWriter == TypeOK /\ LockInv /\ JobInv /\ LastInv => OneWriter
<1> SUFFICES ASSUME TypeOK, LockInv, JobInv, LastInv, NEW p \in Server, NEW q \in Server,
                    HasStore(p), HasStore(q), server[p].id <= server[q].id, p # q
             PROVE  server[p].pc = "exiting"
  BY DEF OneWriter
<1>1. server[p].pc # "off" /\ server[q].pc # "off"
  BY PcsAre, WorkingIs DEF HasStore, JobInv
<1>2. starts \in Nat
  BY DEF TypeOK
<1>3. server[p].id \in 1..starts /\ server[q].id \in 1..starts /\ server[p].id # server[q].id
  BY <1>1 DEF LastInv
<1>4. server[p].id # starts
  BY <1>2, <1>3
<1> QED
  BY <1>1, <1>4 DEF LastInv, Gone

-----------------------------------------------------------------------------
(* The database files.                                                     *)

LEMMA ServeStores ==
  ASSUME TypeOK, NEW p \in Server, ServeStep(p), ~Commit(p), NEW f \in Path
  PROVE  /\ store'[f].epoch = store[f].epoch /\ store'[f].rows = store[f].rows
         /\ store'[f].tables = store[f].tables
         /\ server[p].path # f => store'[f] = store[f]
<1>1. \/ UNCHANGED store
      \/ \E b \in {"absent", "present"} :
           store' = [store EXCEPT ![server[p].path] =
                       [store[server[p].path] EXCEPT !.journal = b]]
  <2>1. CASE \/ \E g \in Path : Start(p, g)
             \/ CheckDatabaseVersion(p) \/ BeginOwn(p) \/ (\E o \in Port : Listen(p, o))
             \/ Publish(p) \/ Stop(p) \/ CloseStore(p) \/ CompareDiscovery(p)
             \/ RemoveDiscovery(p) \/ Unlock(p) \/ \E c \in Client : Serve(p, c)
    BY <2>1 DEF Start, CheckDatabaseVersion, BeginOwn, Listen, Publish, Stop, CloseStore,
                CompareDiscovery, RemoveDiscovery, Unlock, Serve
  <2>2. CASE Write(p)
    <3>1. Journals(p) \subseteq {"absent", "present"}
      BY DEF Journals
    <3> QED
      BY <2>2, <3>1 DEF Write
  <2>3. CASE Rollback(p) \/ Exit(p) \/ Crash(p)
    BY <2>3 DEF Rollback, Exit, Crash, Ends, Undone
  <2> QED
    BY <2>1, <2>2, <2>3 DEF ServeStep
<1>2. store[f] \in Stores /\ store \in [Path -> Stores]
  BY DEF TypeOK
<1> QED
  BY <1>1, <1>2 DEF Stores

LEMMA CommitStores ==
  ASSUME TypeOK, NEW p \in Server, Commit(p), NEW f \in Path
  PROVE  /\ store'[f].rows = store[f].rows
         /\ server[p].path # f => store'[f] = store[f]
         /\ server[p].path = f => store'[f].epoch = Epoch(store[f], server[p].pc)
<1>1. store' = [store EXCEPT ![server[p].path] = Committed(store[server[p].path], server[p].pc)]
  BY DEF Commit
<1>2. store[f] \in Stores /\ store \in [Path -> Stores]
  BY DEF TypeOK
<1>3. /\ Committed(store[f], server[p].pc).rows = store[f].rows
      /\ Committed(store[f], server[p].pc).epoch = Epoch(store[f], server[p].pc)
  BY <1>2 DEF Committed, Stores
<1> QED
  BY <1>1, <1>2, <1>3

-----------------------------------------------------------------------------
(* Epochs.  A start that has not yet its epoch has an id that no epoch has. *)

Unnumbered == {"locked", "checked", "opened", "migrated", "frozen"}

EpochInv ==
  /\ \A a \in numbered : a[2] <= store[a[1]].epoch /\ 1 <= a[3] /\ a[3] <= starts
  /\ \A p \in Server : server[p].pc \in Unnumbered =>
       \A a \in numbered : a[3] # server[p].id
  /\ EpochsFollowStarts

LEMMA EpochStep ==
  ASSUME TypeOK, TypeOK', JobInv, LockInv, LastInv, EpochInv, [Next]_vars
  PROVE  EpochInv'
<1>1. /\ starts \in Nat
      /\ \A a \in numbered : /\ a[1] \in Path /\ a[2] \in Nat /\ a[3] \in Nat
                             /\ store[a[1]].epoch \in Nat
  BY DEF TypeOK, Stores
<1>2. ASSUME numbered' = numbered, starts' \in Nat, starts <= starts',
             \A f \in Path : store'[f].epoch = store[f].epoch,
             \A p \in Server : server'[p].pc \in Unnumbered =>
               \/ server'[p].id > starts
               \/ server[p].pc \in Unnumbered /\ server'[p].id = server[p].id
      PROVE  EpochInv'
  <2>1. \A a \in numbered' : a[2] <= store'[a[1]].epoch /\ 1 <= a[3] /\ a[3] <= starts'
    BY <1>1, <1>2 DEF EpochInv
  <2>2. ASSUME NEW p \in Server, server'[p].pc \in Unnumbered, NEW a \in numbered'
        PROVE  a[3] # server'[p].id
    <3>1. a[3] <= starts /\ a[3] \in Nat /\ a \in numbered
      BY <1>1, <1>2 DEF EpochInv
    <3>2. CASE server'[p].id > starts
      BY <1>1, <3>1, <3>2
    <3>3. CASE server[p].pc \in Unnumbered /\ server'[p].id = server[p].id
      BY <3>1, <3>3 DEF EpochInv
    <3> QED
      BY <1>2, <2>2, <3>2, <3>3
  <2> QED
    BY <1>2, <2>1, <2>2 DEF EpochInv, EpochsFollowStarts
<1>3. CASE UNCHANGED process
  BY <1>1, <1>2, <1>3 DEF process
<1>4. CASE OldWrite
  <2>1. \A f \in Path : store'[f].epoch = store[f].epoch
    BY <1>4 DEF OldWrite, TypeOK, Stores
  <2> QED
    BY <1>1, <1>2, <1>4, <2>1 DEF OldWrite
<1>5. ASSUME NEW m \in Migrator, PublishLayout(m) PROVE EpochInv'
  <2>1. starts = 0
    BY <1>5 DEF PublishLayout, LastInv
  <2>2. numbered' = {}
    BY <1>1, <1>5, <2>1 DEF EpochInv, PublishLayout
  <2> QED
    BY <2>2 DEF EpochInv, EpochsFollowStarts
<1>6. ASSUME NEW p \in Server, ServeStep(p), ~Commit(p) PROVE EpochInv'
  <2>1. \A f \in Path : store'[f].epoch = store[f].epoch
    BY <1>6, ServeStores
  <2>2. numbered' = numbered
    BY <1>6 DEF ServeStep, Start, CheckDatabaseVersion, BeginOwn, Write, Rollback, Listen,
                Publish, Stop, CloseStore, CompareDiscovery, RemoveDiscovery, Unlock, Exit,
                Crash, Serve
  <2>3. CASE \E f \in Path : Start(p, f)
    <3>1. starts' = starts + 1 /\ server'[p].id = starts' /\ Others(p)
      BY <2>3, StartEffect DEF Start
    <3> QED
      BY <1>1, <1>2, <2>1, <2>2, <3>1 DEF Others
  <2>4. CASE ~\E f \in Path : Start(p, f)
    <3>1. starts' = starts
      BY <1>6, <2>4 DEF ServeStep, CheckDatabaseVersion, BeginOwn, Write, Rollback, Listen,
                Publish, Stop, CloseStore, CompareDiscovery, RemoveDiscovery, Unlock, Exit,
                Crash, Serve
    <3>2. /\ Others(p)
          /\ server'[p].pc \in Unnumbered =>
               server[p].pc \in Unnumbered /\ server'[p].id = server[p].id
      BY <1>6, <2>4, PcsAre, CheckEffect, BeginEffect, WriteEffect, RollbackEffect,
         ListenEffect, PublishEffect, StopEffect, CloseEffect, CompareEffect, RemoveEffect,
         UnlockEffect, OffEffect, ServeEffect DEF ServeStep, Unnumbered, Named, Stays
    <3> QED
      BY <1>1, <1>2, <2>1, <2>2, <3>1, <3>2 DEF Others
  <2> QED
    BY <2>3, <2>4
<1>7. ASSUME NEW p \in Server, Commit(p) PROVE EpochInv'
  <2> DEFINE f == server[p].path
             e == store[f].epoch + 1
             n == <<f, e, server[p].id>>
  <2>1. f \in Path /\ store[f].epoch \in Nat /\ Others(p) /\ server'[p].id = server[p].id
    BY <1>7, Typed, EditedStore, CommitEffect DEF Stays
  <2>2. starts' = starts
    BY <1>7 DEF Commit
  <2>3. CASE server[p].pc # "frozen"
    <3>1. \A g \in Path : store'[g].epoch = store[g].epoch
      BY <1>7, <2>3, CommitStores DEF Epoch
    <3>2. numbered' = numbered
      BY <1>7, <2>3 DEF Commit
    <3>3. server'[p].pc \in Unnumbered => server[p].pc \in Unnumbered
      BY <1>7, CommitEffect, PcsAre DEF Unnumbered
    <3> QED
      BY <1>1, <1>2, <2>1, <2>2, <3>1, <3>2, <3>3 DEF Others
  <2>4. CASE server[p].pc = "frozen"
    <3>1. /\ store'[f].epoch = e
          /\ \A g \in Path \ {f} : store'[g] = store[g]
      BY <1>7, <2>1, <2>4, CommitStores DEF Epoch
    <3>2. numbered' = numbered \cup {n}
      BY <1>7, <2>4 DEF Commit, Epoch
    <3>3. server[p].id = starts /\ server[p].id \in Nat /\ 1 <= starts
      <4>1. server[p].id = starts /\ server[p].id \in 1..starts
        BY <2>4 DEF LastInv, Gone
      <4> QED
        BY <1>1, <4>1
    <3>4. \A a \in numbered : a[3] < server[p].id
      BY <1>1, <2>4, <3>3 DEF EpochInv, Unnumbered
    <3>5. \A a \in numbered : a[1] = f => a[2] < e
      BY <1>1, <2>1 DEF EpochInv
    <3>6. n[1] = f /\ n[2] = e /\ n[3] = server[p].id
      OBVIOUS
    <3>7. \A a \in numbered' : a[2] <= store'[a[1]].epoch /\ 1 <= a[3] /\ a[3] <= starts'
      BY <1>1, <2>1, <2>2, <3>1, <3>2, <3>3, <3>5, <3>6 DEF EpochInv
    <3>8. \A q \in Server : server'[q].pc \notin Unnumbered
      <4>1. server'[p].pc = "numbered"
        BY <1>7, <2>4, CommitEffect DEF After
      <4>2. \A q \in Server \ {p} : server'[q].pc \in Gone
        BY <2>1, <2>4, OthersOff DEF Others, Gone
      <4> QED
        BY <4>1, <4>2 DEF Unnumbered, Gone
    <3> HIDE DEF n
    <3>9. EpochsFollowStarts'
      BY <1>1, <2>1, <3>2, <3>3, <3>4, <3>5, <3>6 DEF EpochInv, EpochsFollowStarts
    <3> QED
      BY <3>7, <3>8, <3>9 DEF EpochInv
  <2> QED
    BY <2>3, <2>4
<1> QED
  BY <1>3, <1>4, <1>5, <1>6, <1>7, StepKinds

-----------------------------------------------------------------------------
(* The copies of a publication: in the discovery file, in what an adapter  *)
(* knows and checks, and in the write it has sent.                         *)

Sent == Discoveries \ {None}
Held(c, d) == \/ d = client[c].known \/ d = client[c].request
              \/ \E k \in client[c].checks : d = k.d
Floating(d) == d = discovery \/ \E c \in Client : Held(c, d)

ClientStep(c) == \/ Connect(c) \/ Post(c) \/ RequestFails(c)
                 \/ \E k \in client[c].checks : HealthAnswered(c, k) \/ Checked(c, k)

LEMMA ClientKinds ==
  ASSUME [Next]_vars
  PROVE  \/ UNCHANGED client
         \/ \E c \in Client : ClientStep(c) \/ \E p \in Server : Serve(p, c)
<1>1. CASE UNCHANGED vars
  BY <1>1 DEF vars
<1>2. CASE \E p \in Server : ServeStep(p)
  BY <1>2 DEF ServeStep, Start, CheckDatabaseVersion, BeginOwn, Write, Commit, Rollback, Listen,
              Publish, Stop, CloseStore, CompareDiscovery, RemoveDiscovery, Unlock, Exit, Crash
<1>3. CASE \E c \in Client : \/ Connect(c) \/ Post(c) \/ RequestFails(c)
                             \/ \E k \in client[c].checks : HealthAnswered(c, k) \/ Checked(c, k)
  BY <1>3 DEF ClientStep
<1>4. CASE \/ OldWrite \/ OldStops \/ EditRoles \/ Author
           \/ \E o \in Port : ForeignListens(o)
  BY <1>4 DEF OldWrite, OldStops, EditRoles, Author, ForeignListens
<1>5. CASE \E m \in Migrator :
             \/ \E kind \in Kinds : PlanMigration(m, kind)
             \/ LockMigration(m) \/ CopyRoles(m) \/ BackUp(m) \/ PublishLayout(m)
             \/ EndMigration(m)
  BY <1>5 DEF PlanMigration, LockMigration, CopyRoles, BackUp, PublishLayout, EndMigration, Moves
<1> QED
  BY <1>1, <1>2, <1>3, <1>4, <1>5 DEF Next, ServeStep

\* What a client holds after a step it held before, or has read from the file.
LEMMA ClientHolds ==
  ASSUME TypeOK, NEW c \in Client, ClientStep(c) \/ \E p \in Server : Serve(p, c)
  PROVE  /\ \A b \in Client \ {c} : client'[b] = client[b]
         /\ \A d \in Sent : Held(c, d)' => d = discovery \/ Held(c, d)
<1> DEFINE r == client[c]
<1>1. client \in [Client -> Clients] /\ r \in Clients
  BY DEF TypeOK
<1>2. r.checks \subseteq Checks
  BY <1>1 DEF Clients
<1>3. CASE Connect(c)
  <2> DEFINE n == [d |-> discovery, newest |-> TRUE, answer |-> None]
             S == Superseded(c) \cup (IF discovery = None THEN {} ELSE {n})
  <2>1. client' = [client EXCEPT ![c] = [r EXCEPT !.checks = S]]
    BY <1>3 DEF Connect
  <2>2. /\ client'[c].known = r.known /\ client'[c].request = r.request
        /\ client'[c].checks = S
        /\ \A b \in Client \ {c} : client'[b] = client[b]
    BY <1>1, <2>1 DEF Clients
  <2>3. \A k \in Checks : [k EXCEPT !.newest = FALSE].d = k.d
    BY DEF Checks
  <2>4. \A l \in Superseded(c) : \E k \in r.checks : l.d = k.d
    BY <1>2, <2>3 DEF Superseded
  <2>5. n.d = discovery
    OBVIOUS
  <2> HIDE DEF n
  <2>6. \A l \in S : l.d = discovery \/ \E k \in r.checks : l.d = k.d
    BY <2>4, <2>5
  <2> QED
    BY <2>2, <2>6 DEF Held
<1>4. ASSUME NEW k \in r.checks, HealthAnswered(c, k)
      PROVE  /\ \A b \in Client \ {c} : client'[b] = client[b]
             /\ \A d \in Sent : Held(c, d)' => d = discovery \/ Held(c, d)
  <2> DEFINE a == [k EXCEPT !.answer = Health(k.d.port)]
             S == (r.checks \ {k}) \cup {a}
  <2>1. client' = [client EXCEPT ![c] = [r EXCEPT !.checks = S]]
    BY <1>4 DEF HealthAnswered
  <2>2. /\ client'[c].known = r.known /\ client'[c].request = r.request
        /\ client'[c].checks = S
        /\ \A b \in Client \ {c} : client'[b] = client[b]
    BY <1>1, <2>1 DEF Clients
  <2>3. a.d = k.d
    BY <1>2 DEF Checks
  <2> HIDE DEF a
  <2> QED
    BY <2>2, <2>3 DEF Held
<1>5. ASSUME NEW k \in r.checks, Checked(c, k)
      PROVE  /\ \A b \in Client \ {c} : client'[b] = client[b]
             /\ \A d \in Sent : Held(c, d)' => d = discovery \/ Held(c, d)
  <2> DEFINE e == IF k.answer = k.d /\ Counts(k) THEN k.d ELSE r.known
             S == r.checks \ {k}
  <2>1. client' = [client EXCEPT ![c] = [r EXCEPT !.checks = S, !.known = e]]
    BY <1>5 DEF Checked
  <2>2. /\ client'[c].known = e /\ client'[c].request = r.request
        /\ client'[c].checks = S
        /\ \A b \in Client \ {c} : client'[b] = client[b]
    BY <1>1, <2>1 DEF Clients
  <2> QED
    BY <2>2 DEF Held
<1>6. ASSUME NEW d \in {None, r.known}, client' = [client EXCEPT ![c] = [r EXCEPT !.request = d]]
      PROVE  /\ \A b \in Client \ {c} : client'[b] = client[b]
             /\ \A e \in Sent : Held(c, e)' => e = discovery \/ Held(c, e)
  <2>1. /\ client'[c].known = r.known /\ client'[c].checks = r.checks
        /\ client'[c].request = d
        /\ \A b \in Client \ {c} : client'[b] = client[b]
    BY <1>1, <1>6 DEF Clients
  <2> QED
    BY <2>1 DEF Held, Sent
<1>7. CASE Post(c) \/ RequestFails(c) \/ \E p \in Server : Serve(p, c)
  BY <1>6, <1>7 DEF Post, RequestFails, Serve
<1> QED
  BY <1>3, <1>4, <1>5, <1>7 DEF ClientStep

LEMMA FloatStep ==
  ASSUME TypeOK, [Next]_vars, NEW d \in Sent, Floating(d)'
  PROVE  Floating(d) \/ \E p \in Server : Publish(p) /\ d = Identity(p)
<1>1. discovery' = discovery \/ discovery' = None \/ \E p \in Server : Publish(p)
  <2>1. CASE Quiet
    BY <2>1 DEF Quiet
  <2>2. CASE \E p \in Server : ServeStep(p)
    BY <2>2 DEF ServeStep, Start, CheckDatabaseVersion, BeginOwn, Write, Commit, Rollback,
                Listen, Stop, CloseStore, CompareDiscovery, RemoveDiscovery, Unlock, Exit, Crash,
                Serve
  <2> QED
    BY <2>1, <2>2, QuietSteps
<1>2. d = discovery' => d = discovery \/ \E p \in Server : Publish(p) /\ d = Identity(p)
  BY <1>1 DEF Publish, Sent
<1>3. ASSUME NEW c \in Client, Held(c, d)' PROVE Floating(d)
  <2>1. CASE UNCHANGED client
    BY <1>3, <2>1 DEF Held, Floating
  <2>2. ASSUME NEW b \in Client, ClientStep(b) \/ \E p \in Server : Serve(p, b)
        PROVE  Floating(d)
    BY <1>3, <2>2, ClientHolds DEF Held, Floating
  <2> QED
    BY <2>1, <2>2, ClientKinds
<1> QED
  BY <1>2, <1>3 DEF Floating

-----------------------------------------------------------------------------
(* Writes.  A copy that has the id of a process that is on was published   *)
(* by it, and what such a process is said to be does not change any more.  *)

Genuine(d) ==
  /\ d.id <= starts
  /\ \A p \in Server : server[p].pc # "off" /\ server[p].id = d.id
                         => server[p].pc \notin Starting /\ d = Identity(p)

WriteInv ==
  /\ \A d \in Sent : Floating(d) => Genuine(d)
  /\ \A p \in Server : server[p].job # None /\ server[p].pc \notin DOMAIN After
                         => server[p].job = Identity(p)
  /\ WritesReachDiscovered

\* A process that leaves Starting by publishing is the only one that makes a
\* copy genuine; the others keep what is.
LEMMA GenuineStep ==
  ASSUME TypeOK, JobInv, LockInv, LastInv, [Next]_vars,
         NEW d \in Sent, Genuine(d), ~\E p \in Server : Publish(p) /\ d = Identity(p)
  PROVE  Genuine(d)'
<1>1. starts \in Nat /\ d.id \in Nat
  BY DEF TypeOK, Sent, Discoveries
<1>2. CASE Quiet
  BY <1>2 DEF Quiet, Genuine, Identity
<1>3. ASSUME NEW p \in Server, ServeStep(p) PROVE Genuine(d)'
  <2>1. ASSUME Others(p), starts' \in Nat, starts <= starts',
               server'[p].pc # "off" /\ server'[p].id = d.id
                 => server'[p].pc \notin Starting /\ d = Identity(p)'
        PROVE  Genuine(d)'
    <3>1. d.id <= starts'
      BY <1>1, <2>1 DEF Genuine
    <3> QED
      BY <2>1, <3>1 DEF Genuine, Others, Identity
  <2>2. ASSUME NEW f \in Path, Start(p, f) PROVE Genuine(d)'
    <3>1. starts' = starts + 1 /\ server'[p].id = starts' /\ Others(p)
      BY <2>2, StartEffect DEF Start
    <3>2. server'[p].id # d.id
      BY <1>1, <3>1 DEF Genuine
    <3> QED
      BY <1>1, <2>1, <3>1, <3>2
  <2>3. CASE Exit(p) \/ Crash(p)
    BY <1>1, <2>1, <2>3, OffEffect DEF Exit, Crash
  <2>4. ASSUME Others(p), starts' = starts, server[p].pc # "off", Stays(p),
               server[p].pc \notin Starting => server'[p].pc \notin Starting /\ Named(p)
        PROVE  Genuine(d)'
    BY <1>1, <2>1, <2>4 DEF Genuine, Stays, Named, Identity
  <2>5. CASE CheckDatabaseVersion(p) \/ (\E o \in Port : Listen(p, o)) \/ Publish(p)
    <3>1. server[p].pc \in Starting /\ server[p].pc # "off" /\ Others(p) /\ Stays(p)
      BY <2>5, PcsAre, CheckEffect, ListenEffect, PublishEffect DEF Named
    <3>2. starts' = starts
      BY <2>5 DEF CheckDatabaseVersion, Listen, Publish
    <3> QED
      BY <2>4, <3>1, <3>2
  <2>6. CASE Commit(p) \/ Rollback(p)
    <3>1. server[p].pc \in Working /\ starts' = starts
      BY <2>6 DEF Commit, Rollback, JobInv
    <3>2. Others(p) /\ Stays(p)
      BY <2>6, CommitEffect, RollbackEffect DEF Named
    <3>3. server[p].pc \notin Starting => server'[p].pc \notin Starting /\ Named(p)
      BY <2>6, PcsAre, CommitEffect, RollbackEffect DEF Named
    <3> QED
      BY <2>4, <3>1, <3>2, <3>3, WorkingIs
  <2>7. CASE \/ BeginOwn(p) \/ Write(p) \/ Stop(p) \/ CloseStore(p) \/ CompareDiscovery(p)
             \/ RemoveDiscovery(p) \/ Unlock(p) \/ \E c \in Client : Serve(p, c)
    <3>1. /\ Others(p) /\ Named(p)
          /\ server[p].pc \notin Starting => server'[p].pc \notin Starting
      BY <2>7, PcsAre, BeginEffect, WriteEffect, StopEffect, CloseEffect, CompareEffect,
         RemoveEffect, UnlockEffect, ServeEffect
    <3>2. server[p].pc # "off"
      BY <2>7, PcsAre, WorkingIs, BeginEffect, WriteEffect, StopEffect, CloseEffect,
         CompareEffect, RemoveEffect, UnlockEffect, ServeEffect DEF JobInv, MayBegin
    <3>3. starts' = starts
      BY <2>7 DEF BeginOwn, Write, Stop, CloseStore, CompareDiscovery, RemoveDiscovery, Unlock,
                  Serve
    <3> QED
      BY <2>4, <3>1, <3>2, <3>3 DEF Named
  <2> QED
    BY <1>3, <2>2, <2>3, <2>5, <2>6, <2>7 DEF ServeStep
<1> QED
  BY <1>2, <1>3, QuietSteps

LEMMA PublishedGenuine ==
  ASSUME TypeOK, LockInv, LastInv, NEW p \in Server, Publish(p)
  PROVE  Genuine(Identity(p))'
<1> DEFINE d == Identity(p)
<1>1. /\ Others(p) /\ Named(p) /\ server[p].pc = "listening" /\ server'[p].pc = "serving"
      /\ starts' = starts
  BY PublishEffect DEF Publish
<1>2. d' = d /\ d.id = server[p].id
  BY <1>1 DEF Identity, Named, Stays
<1>3. \A q \in Server \ {p} : server'[q].pc # "off" => server'[q].id # d.id
  BY <1>1, <1>2 DEF Others, LastInv
<1>4. d.id <= starts
  BY <1>1, <1>2 DEF LastInv, TypeOK, Gone
<1> QED
  BY <1>1, <1>2, <1>3, <1>4, PcsAre DEF Genuine

LEMMA WriteStep ==
  ASSUME TypeOK, JobInv, LockInv, LastInv, WriteInv, [Next]_vars
  PROVE  WriteInv'
<1>1. ASSUME NEW d \in Sent, Floating(d)' PROVE Genuine(d)'
  <2>1. CASE \E p \in Server : Publish(p) /\ d = Identity(p)
    <3>1. PICK p \in Server : Publish(p) /\ d = Identity(p)
      BY <2>1
    <3>2. d = Identity(p)'
      BY <3>1, PublishEffect DEF Identity, Named, Stays
    <3> QED
      BY <3>1, <3>2, PublishedGenuine DEF Genuine
  <2>2. CASE ~\E p \in Server : Publish(p) /\ d = Identity(p)
    BY <1>1, <2>2, FloatStep, GenuineStep DEF WriteInv
  <2> QED
    BY <2>1, <2>2
<1>2. ASSUME NEW p \in Server, server'[p].job # None, server'[p].pc \notin DOMAIN After
      PROVE  server'[p].job = Identity(p)'
  <2>1. CASE Quiet
    BY <1>2, <2>1 DEF Quiet, WriteInv, Identity
  <2>2. ASSUME NEW q \in Server, ServeStep(q), q # p PROVE server'[p].job = Identity(p)'
    <3>1. Others(q)
      BY <2>2, StartEffect, CheckEffect, BeginEffect, WriteEffect, CommitEffect, RollbackEffect,
         ListenEffect, PublishEffect, StopEffect, CloseEffect, CompareEffect, RemoveEffect,
         UnlockEffect, OffEffect, ServeEffect DEF ServeStep
    <3> QED
      BY <1>2, <2>2, <3>1 DEF Others, WriteInv, Identity
  <2>3. CASE ServeStep(p)
    <3>1. CASE BeginOwn(p)
      BY <3>1, BeginEffect DEF Named, Stays, Identity
    <3>2. ASSUME NEW c \in Client, Serve(p, c) PROVE server'[p].job = Identity(p)'
      <4>1. client[c].request \in Sent /\ Floating(client[c].request)
        BY <3>2 DEF Serve, TypeOK, Clients, Sent, Floating, Held
      <4>2. client[c].request.id = server[p].id /\ server[p].pc # "off"
        BY <3>2 DEF Serve, Handshake
      <4>3. client[c].request = Identity(p)
        BY <4>1, <4>2 DEF WriteInv, Genuine
      <4> QED
        BY <3>2, <4>3, ServeEffect DEF Named, Stays, Identity
    <3>3. CASE Ended(p)
      BY <1>2, <3>3 DEF Ended
    <3>4. CASE Kept(p) /\ Named(p) /\ server[p].pc \notin DOMAIN After
      BY <1>2, <3>4 DEF Kept, Named, Stays, WriteInv, Identity
    <3>5. ASSUME Kept(p), server[p].job = None PROVE server'[p].job = Identity(p)'
      BY <1>2, <3>5 DEF Kept
    <3>6. CASE Write(p)
      BY <1>2, <3>6, WriteEffect DEF Named, Stays, WriteInv, Identity
    <3>7. \/ BeginOwn(p) \/ (\E c \in Client : Serve(p, c)) \/ Ended(p) \/ Write(p)
          \/ Kept(p) /\ Named(p) /\ server[p].pc \notin DOMAIN After
          \/ Kept(p) /\ server[p].job = None
      <4>1. CASE Stop(p)
        BY <4>1, StopEffect, PcsAre DEF Stop
      <4>2. ASSUME NEW o \in Port, Listen(p, o) PROVE Kept(p) /\ server[p].job = None
        BY <4>2, ListenEffect, WorkingIs DEF JobInv
      <4>3. CASE \/ CheckDatabaseVersion(p) \/ Publish(p) \/ CloseStore(p) \/ CompareDiscovery(p)
                 \/ RemoveDiscovery(p) \/ Unlock(p)
        BY <4>3, CheckEffect, PublishEffect, CloseEffect, CompareEffect, RemoveEffect,
           UnlockEffect, PcsAre
      <4> QED
        BY <2>3, <4>1, <4>2, <4>3, StartEffect, CommitEffect, RollbackEffect, OffEffect
           DEF ServeStep
    <3> QED
      BY <3>1, <3>2, <3>3, <3>4, <3>5, <3>6, <3>7
  <2> QED
    BY <2>1, <2>2, <2>3, QuietSteps
<1>3. WritesReachDiscovered'
  <2>1. CASE UNCHANGED accepted
    BY <2>1 DEF WriteInv, WritesReachDiscovered
  <2>2. ASSUME NEW p \in Server, Commit(p), ~UNCHANGED accepted PROVE WritesReachDiscovered'
    <3>1. /\ accepted' = [sent |-> server[p].job, by |-> Identity(p)]
          /\ server[p].job # None /\ server[p].pc \notin DOMAIN After
      BY <2>2 DEF Commit
    <3> QED
      BY <3>1 DEF WriteInv, WritesReachDiscovered
  <2>3. UNCHANGED accepted \/ \E p \in Server : Commit(p)
    <3>1. CASE Quiet
      BY <3>1 DEF Quiet
    <3>2. CASE \E p \in Server : ServeStep(p)
      BY <3>2 DEF ServeStep, Start, CheckDatabaseVersion, BeginOwn, Write, Rollback, Listen,
                  Publish, Stop, CloseStore, CompareDiscovery, RemoveDiscovery, Unlock, Exit,
                  Crash, Serve
    <3> QED
      BY <3>1, <3>2, QuietSteps
  <2> QED
    BY <2>1, <2>2, <2>3
<1> QED
  BY <1>1, <1>2, <1>3 DEF WriteInv

-----------------------------------------------------------------------------
(* What an adapter knows.  The file has the newest copy, the one check that *)
(* counts has a copy no older than what is known.                          *)

Unique == \A d, e \in Sent : Floating(d) /\ Floating(e) /\ d.id = e.id => d = e
FileNewest == discovery # None => \A d \in Sent : Floating(d) => d.id <= discovery.id
CheckNewest(r) ==
  \A k \in r.checks :
    /\ k.d # None
    /\ k.newest => /\ r.known # None => r.known.id <= k.d.id
                   /\ \A l \in r.checks : l.newest => l = k

KnownInv == Unique /\ FileNewest /\ \A c \in Client : CheckNewest(client[c])

LEMMA UniqueStep ==
  ASSUME TypeOK, LockInv, LastInv, WriteInv, Unique, [Next]_vars
  PROVE  Unique'
<1> SUFFICES ASSUME NEW d \in Sent, NEW e \in Sent, Floating(d)', Floating(e)', d.id = e.id
             PROVE  d = e
  BY DEF Unique, Sent
<1> DEFINE New(x) == \E p \in Server : Publish(p) /\ x = Identity(p)
<1>1. CASE Floating(d) /\ Floating(e)
  BY <1>1 DEF Unique
<1>2. ASSUME NEW x \in Sent, NEW y \in Sent, New(x), Floating(y), x.id = y.id PROVE FALSE
  <2>1. PICK p \in Server : Publish(p) /\ x = Identity(p)
    BY <1>2
  <2>2. server[p].pc \in Starting /\ server[p].pc # "off" /\ x.id = server[p].id
    BY <2>1, PcsAre DEF Publish, Identity
  <2> QED
    BY <1>2, <2>2 DEF WriteInv, Genuine
<1>3. CASE New(d) /\ New(e)
  <2>1. PICK p \in Server : Publish(p) /\ d = Identity(p)
    BY <1>3
  <2>2. PICK q \in Server : Publish(q) /\ e = Identity(q)
    BY <1>3
  <2>3. p = q
    BY <2>1, <2>2, OthersOff DEF Publish, Gone
  <2> QED
    BY <2>1, <2>2, <2>3
<1>4. (Floating(d) \/ New(d)) /\ (Floating(e) \/ New(e))
  BY FloatStep
<1> HIDE DEF New
<1> QED
  BY <1>1, <1>2, <1>3, <1>4

LEMMA FileStep ==
  ASSUME TypeOK, LockInv, LastInv, WriteInv', FileNewest, [Next]_vars
  PROVE  FileNewest'
<1> SUFFICES ASSUME discovery' # None, NEW d \in Sent, Floating(d)'
             PROVE  d.id <= discovery'.id
  BY DEF FileNewest, Sent
<1>1. ASSUME NEW p \in Server, Publish(p) PROVE d.id <= discovery'.id
  <2>1. discovery'.id = starts
    BY <1>1 DEF Publish, Identity, LastInv, Gone
  <2>2. d.id <= starts'
    BY DEF WriteInv, Genuine, Sent
  <2> QED
    BY <1>1, <2>1, <2>2 DEF Publish
<1>2. ASSUME ~\E p \in Server : Publish(p) PROVE d.id <= discovery'.id
  <2>1. Floating(d)
    BY <1>2, FloatStep
  <2>2. discovery' = discovery
    <3>1. CASE Quiet
      BY <3>1 DEF Quiet
    <3>2. CASE \E p \in Server : ServeStep(p)
      BY <1>2, <3>2 DEF ServeStep, Start, CheckDatabaseVersion, BeginOwn, Write, Commit,
                  Rollback, Listen, Stop, CloseStore, CompareDiscovery, RemoveDiscovery, Unlock,
                  Exit, Crash, Serve
    <3> QED
      BY <3>1, <3>2, QuietSteps
  <2> QED
    BY <2>1, <2>2 DEF FileNewest
<1> QED
  BY <1>1, <1>2

LEMMA CheckStep ==
  ASSUME TypeOK, Unique, FileNewest, NEW c \in Client, CheckNewest(client[c]),
         ClientStep(c) \/ \E p \in Server : Serve(p, c)
  PROVE  /\ CheckNewest(client'[c])
         /\ client[c].known # None /\ client'[c].known # client[c].known
              => client'[c].known.id > client[c].known.id
<1> DEFINE r == client[c]
           Goal == /\ CheckNewest(client'[c])
                   /\ r.known # None /\ client'[c].known # r.known
                        => client'[c].known.id > r.known.id
<1>1. /\ client \in [Client -> Clients] /\ r \in Clients /\ r.checks \subseteq Checks
      /\ r.known \in Discoveries \cup {None}
  BY DEF TypeOK, Clients
<1>2. CASE Connect(c)
  <2> DEFINE n == [d |-> discovery, newest |-> TRUE, answer |-> None]
             S == Superseded(c) \cup (IF discovery = None THEN {} ELSE {n})
  <2>1. client' = [client EXCEPT ![c] = [r EXCEPT !.checks = S]]
    BY <1>2 DEF Connect
  <2>2. client'[c].known = r.known /\ client'[c].checks = S
    BY <1>1, <2>1 DEF Clients
  <2>3. \A k \in Checks : /\ [k EXCEPT !.newest = FALSE].d = k.d
                          /\ ~[k EXCEPT !.newest = FALSE].newest
    BY DEF Checks
  <2>4. \A l \in Superseded(c) : ~l.newest /\ l.d # None
    <3> SUFFICES ASSUME NEW k \in r.checks
                 PROVE  /\ ~[k EXCEPT !.newest = FALSE].newest
                        /\ [k EXCEPT !.newest = FALSE].d # None
      BY DEF Superseded
    <3>1. k.d # None
      BY DEF CheckNewest
    <3> QED
      BY <1>1, <2>3, <3>1
  <2>5. n.d = discovery
    OBVIOUS
  <2>6. discovery # None /\ r.known # None => r.known.id <= discovery.id
    BY <1>1 DEF FileNewest, Floating, Held, Sent
  <2> HIDE DEF n
  <2>7. CheckNewest(client'[c])
    BY <2>2, <2>4, <2>5, <2>6 DEF CheckNewest
  <2> QED
    BY <2>2, <2>7
<1>3. ASSUME NEW k \in r.checks, HealthAnswered(c, k) PROVE Goal
  <2> DEFINE a == [k EXCEPT !.answer = Health(k.d.port)]
             S == (r.checks \ {k}) \cup {a}
  <2>1. client' = [client EXCEPT ![c] = [r EXCEPT !.checks = S]]
    BY <1>3 DEF HealthAnswered
  <2>2. client'[c].known = r.known /\ client'[c].checks = S
    BY <1>1, <2>1 DEF Clients
  <2>3. a.d = k.d /\ a.newest = k.newest
    BY <1>1 DEF Checks
  <2> HIDE DEF a
  <2>4. CheckNewest(client'[c])
    BY <2>2, <2>3 DEF CheckNewest
  <2> QED
    BY <2>2, <2>4
<1>4. ASSUME NEW k \in r.checks, Checked(c, k) PROVE Goal
  <2> DEFINE e == IF k.answer = k.d /\ Counts(k) THEN k.d ELSE r.known
             S == r.checks \ {k}
  <2>1. client' = [client EXCEPT ![c] = [r EXCEPT !.checks = S, !.known = e]]
    BY <1>4 DEF Checked
  <2>2. client'[c].known = e /\ client'[c].checks = S
    BY <1>1, <2>1 DEF Clients
  <2>3. CASE e = r.known
    <3>1. CheckNewest(client'[c])
      BY <2>2, <2>3 DEF CheckNewest
    <3> QED
      BY <2>2, <2>3, <3>1
  <2>4. CASE e # r.known
    <3>1. e = k.d /\ k.newest
      BY <2>4 DEF Counts
    <3>2. \A l \in S : ~l.newest
      BY <3>1 DEF CheckNewest
    <3>3. CheckNewest(client'[c])
      BY <2>2, <3>2 DEF CheckNewest
    <3>4. k.d \in Sent /\ k.d.id \in Nat
      BY <1>1 DEF CheckNewest, Checks, Sent, Discoveries
    <3>5. r.known # None => r.known \in Sent /\ r.known.id \in Nat
      BY <1>1 DEF Sent, Discoveries
    <3>6. r.known # None => r.known.id <= k.d.id /\ r.known.id # k.d.id
      BY <2>4, <3>1, <3>4, <3>5 DEF CheckNewest, Unique, Floating, Held
    <3> QED
      BY <2>2, <3>1, <3>3, <3>4, <3>5, <3>6
  <2> QED
    BY <2>3, <2>4
<1>5. CASE Post(c) \/ RequestFails(c) \/ \E p \in Server : Serve(p, c)
  <2>1. PICK d : client' = [client EXCEPT ![c] = [r EXCEPT !.request = d]]
    BY <1>5 DEF Post, RequestFails, Serve
  <2>2. client'[c].known = r.known /\ client'[c].checks = r.checks
    BY <1>1, <2>1 DEF Clients
  <2> QED
    BY <2>2 DEF CheckNewest
<1> QED
  BY <1>2, <1>3, <1>4, <1>5 DEF ClientStep

LEMMA KnownStep ==
  ASSUME TypeOK, LockInv, LastInv, WriteInv, WriteInv', KnownInv, [Next]_vars
  PROVE  /\ KnownInv'
         /\ \A c \in Client : client[c].known # None /\ client'[c].known # client[c].known
                                => client'[c].known.id > client[c].known.id
<1>1. Unique' /\ FileNewest'
  BY UniqueStep, FileStep DEF KnownInv
<1>2. ASSUME NEW c \in Client
      PROVE  /\ CheckNewest(client'[c])
             /\ client[c].known # None /\ client'[c].known # client[c].known
                  => client'[c].known.id > client[c].known.id
  <2>1. CASE client'[c] = client[c]
    BY <2>1 DEF KnownInv
  <2>2. ASSUME client'[c] # client[c]
        PROVE  ClientStep(c) \/ \E p \in Server : Serve(p, c)
    BY <2>2, ClientKinds, ClientHolds
  <2> QED
    BY <2>1, <2>2, CheckStep DEF KnownInv
<1> QED
  BY <1>1, <1>2 DEF KnownInv, CheckNewest

-----------------------------------------------------------------------------
(* The old database.  A start that names it gets no further than its check. *)

Harmless == {"locked", "stopping", "closed", "removing", "unlocking", "exiting"}

LegacyInv ==
  /\ \A p \in Server : server[p].path = LegacyPath
                         => server[p].pc \in Harmless /\ server[p].job = None
  /\ LegacyKept

LEMMA LegacyStep ==
  ASSUME TypeOK, JobInv, LegacyInv, [Next]_vars
  PROVE  LegacyInv'
<1>1. ASSUME NEW p \in Server, ServeStep(p)
      PROVE  \A q \in Server : server'[q].path = LegacyPath
                                 => server'[q].pc \in Harmless /\ server'[q].job = None
  <2>1. ASSUME Others(p), server'[p].path = LegacyPath
                            => server'[p].pc \in Harmless /\ server'[p].job = None
        PROVE  \A q \in Server : server'[q].path = LegacyPath
                                   => server'[q].pc \in Harmless /\ server'[q].job = None
    BY <2>1 DEF LegacyInv, Others
  <2>2. CASE \E f \in Path : Start(p, f)
    BY <2>1, <2>2, StartEffect DEF Harmless, Ended
  <2>3. CASE Exit(p) \/ Crash(p)
    BY <2>1, <2>3, OffEffect, ControllerAssumption DEF ControllerAssumption
  <2>4. CASE CheckDatabaseVersion(p)
    <3>1. server[p].path = LegacyPath => Refusal(server[p].path) # "none"
      <4> SUFFICES ASSUME server[p].path = LegacyPath PROVE Refusal(LegacyPath) # "none"
        OBVIOUS
      <4>1. store[LegacyPath].tables \in Old
        BY Typed DEF LegacyInv, LegacyKept
      <4>2. ~Prepared(LegacyPath)
        BY ControllerAssumption DEF ControllerAssumption, Prepared
      <4> QED
        BY <4>1, <4>2 DEF Refusal
    <3>2. server[p].path = LegacyPath => server'[p].pc = "stopping"
      BY <2>4, <3>1 DEF CheckDatabaseVersion, TypeOK, Servers
    <3> QED
      BY <2>1, <2>4, <3>2, CheckEffect DEF LegacyInv, Harmless, Named, Stays, Kept
  <2>5. CASE BeginOwn(p) \/ Write(p) \/ Commit(p) \/ Rollback(p) \/ Publish(p)
             \/ (\E o \in Port : Listen(p, o)) \/ \E c \in Client : Serve(p, c)
    <3>1. server[p].job # None \/ server[p].pc \notin Harmless
      BY <2>5, PcsAre, BeginEffect, WriteEffect, ListenEffect, PublishEffect, ServeEffect
         DEF Commit, Rollback, MayBegin, Harmless
    <3>2. Others(p) /\ Stays(p)
      BY <2>5, BeginEffect, WriteEffect, CommitEffect, RollbackEffect, ListenEffect,
         PublishEffect, ServeEffect DEF Named
    <3> QED
      BY <2>1, <3>1, <3>2 DEF LegacyInv, Stays
  <2>6. CASE \/ Stop(p) \/ CloseStore(p) \/ CompareDiscovery(p) \/ RemoveDiscovery(p)
             \/ Unlock(p)
    <3>1. /\ Others(p) /\ Stays(p) /\ Kept(p)
          /\ server[p].pc \in Harmless => server'[p].pc \in Harmless
      BY <2>6, StopEffect, CloseEffect, CompareEffect, RemoveEffect, UnlockEffect
         DEF Named, Harmless
    <3> QED
      BY <2>1, <3>1 DEF LegacyInv, Stays, Kept
  <2> QED
    BY <1>1, <2>2, <2>3, <2>4, <2>5, <2>6 DEF ServeStep
<1>2. ASSUME NEW p \in Server, ServeStep(p), LegacyPath \in Path
      PROVE  store'[LegacyPath] = store[LegacyPath]
  <2>1. CASE server[p].path # LegacyPath
    BY <1>2, <2>1, ServeStores, CommitStores
  <2>2. CASE server[p].path = LegacyPath
    <3>1. server[p].job = None /\ ~server[p].wrote
      BY <2>2 DEF LegacyInv, JobInv
    <3>2. CASE Write(p) \/ Commit(p) \/ Rollback(p)
      BY <3>1, <3>2 DEF Write, Commit, Rollback
    <3>3. CASE Exit(p) \/ Crash(p)
      BY <3>1, <3>3 DEF Exit, Crash, Ends, Undone
    <3>4. CASE ~(Write(p) \/ Commit(p) \/ Rollback(p) \/ Exit(p) \/ Crash(p))
      BY <1>2, <3>4
         DEF ServeStep, Start, CheckDatabaseVersion, BeginOwn, Listen, Publish, Stop, CloseStore,
             CompareDiscovery, RemoveDiscovery, Unlock, Serve
    <3> QED
      BY <3>2, <3>3, <3>4
  <2> QED
    BY <2>1, <2>2
<1>3. CASE UNCHANGED process
  BY <1>3 DEF process, LegacyInv, LegacyKept
<1>4. CASE OldWrite
  <2>1. LegacyPath \in Path => /\ store'[LegacyPath].tables = store[LegacyPath].tables
                               /\ store'[LegacyPath].journal = store[LegacyPath].journal
    BY <1>4 DEF OldWrite, TypeOK, Stores
  <2> QED
    BY <1>4, <2>1 DEF OldWrite, LegacyInv, LegacyKept
<1>5. ASSUME NEW m \in Migrator, PublishLayout(m) PROVE LegacyInv'
  <2>1. store'[LegacyPath] = store[LegacyPath] /\ UNCHANGED server
    BY <1>5, LegacyTyped, ControllerAssumption DEF ControllerAssumption, PublishLayout, TypeOK
  <2> QED
    BY <2>1 DEF LegacyInv, LegacyKept
<1>6. ASSUME NEW p \in Server, ServeStep(p) PROVE LegacyInv'
  BY <1>1, <1>2, <1>6 DEF LegacyInv, LegacyKept
<1> QED
  BY <1>3, <1>4, <1>5, <1>6, StepKinds

-----------------------------------------------------------------------------
(* Migration.  Who has confirmed that the old writer has stopped has said   *)
(* what stays so, and the copies are of what does not change any more.      *)

Backed(g) ==
  /\ g.pc # "idle" => ~oldWriter
  /\ g.pc \in {"copied", "prepared"} => g.copied = g.roles
  /\ g.pc = "prepared" /\ g.kind = "database" => g.rows = store[LegacyPath].rows

ManifestInv ==
  /\ \A m \in Migrator : Backed(migration[m])
  /\ layout.kind \in Kinds => ~oldWriter /\ Migrator # {}
  /\ ManifestIsTrue

\* Serve keeps the rows, the old controller writes while it runs.
LEMMA RowsStep ==
  ASSUME TypeOK, [Next]_vars, ~OldWrite, ~\E m \in Migrator : PublishLayout(m), NEW f \in Path
  PROVE  store'[f].rows = store[f].rows
<1>1. CASE UNCHANGED process
  BY <1>1 DEF process
<1>2. ASSUME NEW p \in Server, ServeStep(p) PROVE store'[f].rows = store[f].rows
  BY <1>2, ServeStores, CommitStores
<1> QED
  BY <1>1, <1>2, StepKinds

\* A step of a migration before its publication.
Prepares(m) == \/ \E kind \in Kinds : PlanMigration(m, kind)
               \/ LockMigration(m) \/ CopyRoles(m) \/ BackUp(m) \/ EndMigration(m)

LEMMA ProjectKinds ==
  ASSUME [Next]_vars
  PROVE  \/ UNCHANGED <<layout, oldWriter, migration>>
         \/ OldStops \/ Author
         \/ \E m \in Migrator : Prepares(m) \/ PublishLayout(m)
<1>1. CASE UNCHANGED vars
  BY <1>1 DEF vars, project
<1>2. CASE \E p \in Server : ServeStep(p)
  BY <1>2 DEF ServeStep, Start, CheckDatabaseVersion, BeginOwn, Write, Commit, Rollback,
              Listen, Publish, Stop, CloseStore, CompareDiscovery, RemoveDiscovery, Unlock,
              Exit, Crash, Serve, project
<1>3. CASE \E c \in Client : \/ Connect(c) \/ Post(c) \/ RequestFails(c)
                             \/ \E k \in client[c].checks : HealthAnswered(c, k) \/ Checked(c, k)
  BY <1>3 DEF Connect, Post, RequestFails, HealthAnswered, Checked, project
<1>4. CASE \/ OldWrite \/ OldStops \/ EditRoles \/ Author
           \/ \E o \in Port : ForeignListens(o)
  BY <1>4 DEF OldWrite, EditRoles, ForeignListens, project
<1>5. CASE \E m \in Migrator :
             \/ \E kind \in Kinds : PlanMigration(m, kind)
             \/ LockMigration(m) \/ CopyRoles(m) \/ BackUp(m) \/ PublishLayout(m)
             \/ EndMigration(m)
  BY <1>5 DEF Prepares
<1> QED
  BY <1>1, <1>2, <1>3, <1>4, <1>5 DEF Next, ServeStep

LEMMA ManifestStep ==
  ASSUME TypeOK, ManifestInv, [Next]_vars
  PROVE  ManifestInv'
<1>1. oldWriter' => oldWriter
  BY ProjectKinds DEF OldStops, Author, Prepares, PlanMigration, LockMigration, CopyRoles, BackUp,
     EndMigration, PublishLayout, Moves
<1>2. CASE OldWrite
  <2>1. oldWriter /\ UNCHANGED <<oldWriter, layout, migration>>
    BY <1>2 DEF OldWrite, project
  <2>2. layout.kind \notin Kinds /\ \A m \in Migrator : migration[m].pc = "idle"
    BY <2>1 DEF ManifestInv, Backed
  <2> QED
    BY <2>1, <2>2 DEF ManifestInv, Backed, ManifestIsTrue
<1>3. ASSUME NEW m \in Migrator, PublishLayout(m) PROVE ManifestInv'
  <2> DEFINE g == migration[m]
  <2>1. /\ g.copied = g.roles /\ ~oldWriter /\ oldWriter' = oldWriter
        /\ g.kind = "database" => g.rows = store[LegacyPath].rows
    BY <1>3 DEF PublishLayout, ManifestInv, Backed
  <2>2. store'[LegacyPath] = store[LegacyPath]
    BY <1>3, LegacyTyped, ControllerAssumption DEF ControllerAssumption, PublishLayout, TypeOK
  <2>3. g.kind = "database" => store'[StatePath].rows = g.rows
    <3>1. StatePath \in Path /\ [Fresh EXCEPT !.tables = store[LegacyPath].tables,
                                              !.rows = g.rows].rows = g.rows
      BY ControllerAssumption DEF ControllerAssumption, Fresh
    <3> QED
      BY <1>3, <3>1 DEF PublishLayout, TypeOK
  <2>4. layout'.copied = g.copied /\ layout'.roles = g.roles /\ layout'.kind = g.kind
    BY <1>3 DEF PublishLayout
  <2>5. ManifestIsTrue'
    BY <2>1, <2>2, <2>3, <2>4 DEF ManifestIsTrue
  <2>6. ASSUME NEW n \in Migrator PROVE Backed(migration[n])'
    <3>1. CASE n = m
      <4>1. migration'[n].pc = "idle"
        BY <1>3, <3>1 DEF PublishLayout, TypeOK, Resting
      <4> QED
        BY <4>1 DEF Backed
    <3>2. CASE n # m
      <4>1. migration'[n] = migration[n]
        BY <1>3, <3>2 DEF PublishLayout, TypeOK
      <4> QED
        BY <2>1, <2>2, <4>1 DEF Backed, ManifestInv
    <3> QED
      BY <3>1, <3>2
  <2> QED
    BY <2>1, <2>5, <2>6 DEF ManifestInv
<1>4. ASSUME ~OldWrite, ~\E m \in Migrator : PublishLayout(m) PROVE ManifestInv'
  <2>1. /\ store'[StatePath].rows = store[StatePath].rows
        /\ Migrator # {} => store'[LegacyPath].rows = store[LegacyPath].rows
    BY <1>4, RowsStep, ControllerAssumption DEF ControllerAssumption
  <2>2. layout' = layout \/ layout'.kind = "authored"
    BY <1>4, ProjectKinds DEF OldStops, Author, NoLayout, Prepares, PlanMigration, LockMigration,
       CopyRoles, BackUp, EndMigration
  <2>3. (layout.kind \in Kinds => ~oldWriter /\ Migrator # {})' /\ ManifestIsTrue'
    BY <1>1, <2>1, <2>2 DEF ManifestInv, ManifestIsTrue, Kinds
  <2>4. ASSUME NEW m \in Migrator PROVE Backed(migration[m])'
    <3>1. CASE migration'[m] = migration[m]
      BY <1>1, <2>1, <3>1 DEF ManifestInv, Backed
    <3>2. ASSUME migration'[m] # migration[m] PROVE Prepares(m)
      BY <1>4, <3>2, ProjectKinds
         DEF OldStops, Author, Prepares, PlanMigration, LockMigration, CopyRoles, BackUp,
             EndMigration, Moves, TypeOK
    <3>3. CASE Prepares(m)
      <4> DEFINE g == migration[m]
      <4>1. g \in Migrations /\ migration \in [Migrator -> Migrations] /\ Backed(g)
        BY DEF TypeOK, ManifestInv
      <4>2. ASSUME NEW kind \in Kinds, PlanMigration(m, kind) PROVE Backed(migration[m])'
        <5>1. migration'[m].pc = "planned" /\ ~oldWriter'
          BY <4>1, <4>2, <1>1 DEF PlanMigration, Confirmed, Moves, Resting
        <5> QED
          BY <5>1 DEF Backed
      <4>3. CASE LockMigration(m)
        <5>1. migration'[m].pc = "staging" /\ ~oldWriter'
          BY <4>1, <4>3, <1>1 DEF LockMigration, Moves, Migrations, Backed
        <5> QED
          BY <5>1 DEF Backed
      <4>4. CASE CopyRoles(m)
        <5>1. /\ migration'[m].pc = "copied" /\ ~oldWriter'
              /\ migration'[m].copied = migration'[m].roles
          BY <4>1, <4>4, <1>1 DEF CopyRoles, Moves, Migrations, Backed
        <5> QED
          BY <5>1 DEF Backed
      <4>5. CASE BackUp(m)
        <5>1. /\ migration'[m].pc = "prepared" /\ ~oldWriter'
              /\ migration'[m].copied = g.copied /\ migration'[m].roles = g.roles
              /\ migration'[m].kind = g.kind
              /\ g.kind = "database" => migration'[m].rows = store[LegacyPath].rows
              /\ g.pc = "copied"
          BY <4>1, <4>5, <1>1 DEF BackUp, Moves, Migrations, Backed
        <5> QED
          BY <2>1, <4>1, <5>1 DEF Backed
      <4>6. CASE EndMigration(m)
        <5>1. migration'[m].pc = "idle"
          BY <4>1, <4>6 DEF EndMigration, Moves, Resting
        <5> QED
          BY <5>1 DEF Backed
      <4> QED
        BY <3>3, <4>2, <4>3, <4>4, <4>5, <4>6 DEF Prepares
    <3> QED
      BY <3>1, <3>2, <3>3
  <2> QED
    BY <2>3, <2>4 DEF ManifestInv
<1> QED
  BY <1>2, <1>3, <1>4

-----------------------------------------------------------------------------
(* The theorems.                                                           *)

IInv == /\ TypeOK /\ JobInv /\ LockInv /\ LiveDiscovery /\ LastInv /\ EpochInv /\ WriteInv
        /\ KnownInv /\ LegacyInv /\ ManifestInv

LEMMA InitHolds == Init => IInv
<1> SUFFICES ASSUME Init PROVE IInv
  OBVIOUS
<1>1. TypeOK
  BY InitTyped
<1>2. \A p \in Server : /\ server[p].pc = "off" /\ server[p].job = None /\ ~server[p].wrote
                        /\ server[p].path = StatePath
  BY DEF Init, Off
<1>3. JobInv /\ LockInv
  BY <1>2, ControllerAssumption DEF ControllerAssumption, Init, JobInv, LockInv, Gone
<1>4. LiveDiscovery /\ LastInv
  BY <1>2 DEF Init, LiveDiscovery, LastInv, Gone
<1>5. EpochInv
  BY <1>2 DEF Init, EpochInv, EpochsFollowStarts, Unnumbered
<1>6. \A c \in Client : client[c].known = None /\ client[c].request = None /\ client[c].checks = {}
  BY DEF Init
<1>7. \A d \in Sent : ~Floating(d)
  BY <1>6 DEF Init, Floating, Held, Sent
<1>8. WriteInv
  BY <1>2, <1>7 DEF Init, WriteInv, WritesReachDiscovered
<1>9. KnownInv
  BY <1>6, <1>7 DEF Init, KnownInv, Unique, FileNewest, CheckNewest
<1>10. LegacyInv
  <2>1. LegacyKept
    BY DEF Init, LegacyKept, Fresh
  <2> QED
    BY <1>2, <2>1, ControllerAssumption DEF ControllerAssumption, LegacyInv
<1>11. ManifestInv
  <2>1. layout.kind \notin Kinds
    BY DEF Init, NoLayout, Kinds
  <2>2. \A m \in Migrator : migration[m].pc = "idle"
    BY DEF Init, Resting
  <2> QED
    BY <2>1, <2>2 DEF ManifestInv, Backed, ManifestIsTrue
<1> QED
  BY <1>1, <1>3, <1>4, <1>5, <1>8, <1>9, <1>10, <1>11 DEF IInv

LEMMA StepHolds ==
  ASSUME IInv, [Next]_vars
  PROVE  /\ IInv'
         /\ \A c \in Client : client[c].known # None /\ client'[c].known # client[c].known
                                => client'[c].known.id > client[c].known.id
<1>1. TypeOK' /\ JobInv' /\ LockInv' /\ LiveDiscovery' /\ LastInv'
  BY TypeStep, JobStep, LockStep, LiveStep, LastStep DEF IInv
<1>2. EpochInv' /\ WriteInv' /\ LegacyInv' /\ ManifestInv'
  BY <1>1, EpochStep, WriteStep, LegacyStep, ManifestStep DEF IInv
<1> QED
  BY <1>1, <1>2, KnownStep DEF IInv

\* The invariant that the properties follow from.
THEOREM Invariance == Spec => []IInv
BY InitHolds, StepHolds, PTL DEF Spec

\* Of two processes that have the database open the earlier has let go of the
\* lock and only ends a transaction begun before, for any number of processes
\* that are started, refused, signalled and killed beside each other.
THEOREM SingleWriter == Spec => []OneWriter
<1>1. IInv => OneWriter
  BY LockIsOneWriter DEF IInv
<1> QED
  BY <1>1, Invariance, PTL

\* The discovery file names the controller that serves, whoever left before.
THEOREM DiscoveryIsLive == Spec => []LiveDiscovery
<1>1. IInv => LiveDiscovery
  BY DEF IInv
<1> QED
  BY <1>1, Invariance, PTL

\* In each database epochs and starts have one order.
THEOREM EpochsOrdered == Spec => []EpochsFollowStarts
<1>1. IInv => EpochsFollowStarts
  BY DEF IInv, EpochInv
<1> QED
  BY <1>1, Invariance, PTL

\* A write is committed by the controller its sender has discovered, for any
\* number of clients, ports and checks under way.
THEOREM WritesReach == Spec => []WritesReachDiscovered
<1>1. IInv => WritesReachDiscovered
  BY DEF IInv, WriteInv
<1> QED
  BY <1>1, Invariance, PTL

\* No adapter goes back to an earlier controller.
THEOREM KnownForward == Spec => KnownMovesForward
<1>1. IInv /\ [Next]_vars =>
        [\A c \in Client : client[c].known # None /\ client'[c].known # client[c].known
                             => client'[c].known.id > client[c].known.id]_vars
  BY StepHolds
<1> QED
  BY <1>1, Invariance, PTL DEF Spec, KnownMovesForward

\* Nothing but the old controller writes the old database.
THEOREM LegacyUntouched == Spec => []LegacyKept
<1>1. IInv => LegacyKept
  BY DEF IInv, LegacyInv
<1> QED
  BY <1>1, Invariance, PTL

\* A published migration has what its manifest states.
THEOREM ManifestHolds == Spec => []ManifestIsTrue
<1>1. IInv => ManifestIsTrue
  BY DEF IInv, ManifestInv
<1> QED
  BY <1>1, Invariance, PTL
-----------------------------------------------------------------------------
(* How far p is from serving or from letting go of the lock.               *)

Pending(rec) == IF rec.job = None THEN 2 ELSE IF rec.wrote THEN 0 ELSE 1

Distance(rec) ==
  CASE rec.pc = "locked" -> 19
    [] rec.pc = "checked" -> 16 + Pending(rec)
    [] rec.pc = "opened" -> 13 + Pending(rec)
    [] rec.pc = "migrated" -> 10 + Pending(rec)
    [] rec.pc = "frozen" -> 7 + Pending(rec)
    [] rec.pc = "numbered" -> 6
    [] rec.pc = "listening" -> 5
    [] rec.pc \in {"shutdown", "stopping"} -> 4
    [] rec.pc = "closed" -> 3
    [] rec.pc = "removing" -> 2
    [] rec.pc = "unlocking" -> 1
    [] OTHER -> 0

Arrives(p) == server'[p].pc = "serving" \/ lock' # p
Nearer(p) == Arrives(p) \/ Distance(server'[p]) < Distance(server[p])
NoFarther(p) == Nearer(p) \/ Distance(server'[p]) = Distance(server[p])

\* A start never takes a step back, whatever is done to it and whatever the
\* requests do that still run in it; what p does itself, as far as Proceeds has
\* it, brings it nearer.
StartDescends ==
  [][\A p \in Server : lock = p /\ server[p].pc # "serving" =>
       /\ NoFarther(p)
       /\ Proceeds(p) => Nearer(p)]_vars

\* The way out takes no notice of transactions.
LEMMA DistanceOut ==
  ASSUME NEW r, NEW s, r.pc = s.pc, r.pc \in {"shutdown", "closed", "removing", "unlocking"}
  PROVE  Distance(r) = Distance(s)
BY DEF Distance

LEMMA TransactionStep ==
  ASSUME TypeOK, JobInv, LockInv, NEW p \in Server, lock = p, server[p].pc # "serving",
         BeginOwn(p) \/ Write(p) \/ Commit(p) \/ Rollback(p)
  PROVE  /\ server[p].pc \in DOMAIN After => Nearer(p)
         /\ server[p].pc \notin DOMAIN After => Distance(server'[p]) = Distance(server[p])
<1>1. /\ server[p].pc \in Working \ {"serving", "exiting"}
      /\ ~BeginOwn(p) => server[p].job # None
  <2>1. server[p].pc # "exiting"
    BY DEF LockInv, Gone
  <2> QED
    BY <2>1, BeginEffect, WriteEffect DEF JobInv, Working, Commit, Rollback
<1>2. CASE server[p].pc \notin DOMAIN After
  <2>1. server'[p].pc = server[p].pc
    BY <1>1, <1>2, WorkingIs, PcsAre, BeginEffect, WriteEffect, CommitEffect, RollbackEffect
  <2>2. server[p].pc \in {"shutdown", "closed", "removing", "unlocking"}
    BY <1>1, <1>2, WorkingIs, PcsAre
  <2> QED
    BY <1>2, <2>1, <2>2, DistanceOut
<1>3. CASE server[p].pc \in DOMAIN After
  <2>1. server[p].pc \in {"checked", "opened", "migrated", "frozen"}
    BY <1>3, PcsAre
  <2>2. CASE BeginOwn(p)
    <3>1. server[p].job = None /\ Identity(p) # None
      BY <2>2, NoneIsNoDiscovery, Typed DEF BeginOwn, Begin
    <3>2. Pending(server[p]) = 2 /\ Pending(server'[p]) \in {0, 1}
      BY <2>2, <3>1, BeginEffect DEF Pending
    <3> QED
      <4>1. server'[p].pc = server[p].pc
        BY <2>2, BeginEffect
      <4>2. Distance(server'[p]) < Distance(server[p])
        BY <2>1, <3>2, <4>1 DEF Distance
      <4> QED
        BY <1>3, <4>2 DEF Nearer
  <2>3. CASE Write(p)
    <3>1. Pending(server[p]) = 1 /\ Pending(server'[p]) = 0
      BY <2>3, WriteEffect DEF Pending
    <3> QED
      <4>1. server'[p].pc = server[p].pc
        BY <2>3, WriteEffect
      <4>2. Distance(server'[p]) < Distance(server[p])
        BY <2>1, <3>1, <4>1 DEF Distance
      <4> QED
        BY <1>3, <4>2 DEF Nearer
  <2>4. CASE Commit(p)
    <3>1. Pending(server[p]) \in {0, 1} /\ Pending(server'[p]) = 2
      BY <1>1, <2>4, CommitEffect DEF Pending, Ended, Commit
    <3>2. server'[p].pc = After[server[p].pc]
      BY <1>3, <2>4, CommitEffect
    <3> QED
      <4>1. Distance(server'[p]) < Distance(server[p])
        BY <2>1, <3>1, <3>2 DEF Distance, After
      <4> QED
        BY <1>3, <4>1 DEF Nearer
  <2>5. CASE Rollback(p)
    <3>1. Pending(server[p]) \in {0, 1}
      BY <1>1, <2>5 DEF Pending, Rollback
    <3>2. server'[p].pc = "stopping"
      BY <2>1, <2>5, RollbackEffect, PcsAre
    <3> QED
      <4>1. Distance(server'[p]) < Distance(server[p])
        BY <2>1, <3>1, <3>2 DEF Distance
      <4> QED
        BY <1>3, <4>1 DEF Nearer
  <2> QED
    BY <1>3, <2>2, <2>3, <2>4, <2>5
<1> QED
  BY <1>2, <1>3

LEMMA MoveStep ==
  ASSUME TypeOK, NEW p \in Server, server[p].pc # "serving",
         \/ CheckDatabaseVersion(p) \/ (\E o \in Port : Listen(p, o)) \/ Publish(p) \/ Stop(p)
         \/ CloseStore(p) \/ CompareDiscovery(p) \/ RemoveDiscovery(p) \/ Unlock(p) \/ Crash(p)
  PROVE  lock = p => Nearer(p)
<1>1. Pending(server'[p]) \in {0, 1, 2} /\ Pending(server[p]) \in {0, 1, 2}
  BY DEF Pending
<1>2. CASE CheckDatabaseVersion(p)
  BY <1>1, <1>2, CheckEffect DEF Nearer, Distance
<1>3. ASSUME NEW o \in Port, Listen(p, o) PROVE Nearer(p)
  BY <1>3, ListenEffect DEF Nearer, Distance
<1>4. CASE Publish(p)
  BY <1>4, PublishEffect DEF Nearer, Arrives
<1>5. CASE Stop(p)
  <2>1. server[p].pc \in Starting /\ server'[p].pc = "stopping"
    BY <1>5, StopEffect
  <2> QED
    BY <1>1, <2>1, PcsAre DEF Nearer, Distance
<1>6. CASE CloseStore(p)
  BY <1>6, CloseEffect DEF Nearer, Distance
<1>7. CASE CompareDiscovery(p)
  BY <1>7, CompareEffect DEF Nearer, Distance
<1>8. CASE RemoveDiscovery(p)
  BY <1>8, RemoveEffect DEF Nearer, Distance
<1>9. CASE Unlock(p) \/ Crash(p)
  <2>1. None # p
    BY ControllerAssumption DEF ControllerAssumption
  <2> QED
    BY <1>9, <2>1 DEF Unlock, Crash, Released, Nearer, Arrives
<1> QED
  BY <1>2, <1>3, <1>4, <1>5, <1>6, <1>7, <1>8, <1>9

LEMMA DistanceStep ==
  ASSUME TypeOK, JobInv, LockInv, NEW p \in Server, lock = p, server[p].pc # "serving",
         ServeStep(p)
  PROVE  NoFarther(p) /\ (Proceeds(p) => Nearer(p))
<1>1. server[p].pc \notin Gone
  BY DEF LockInv
<1>2. ~(\E f \in Path : Start(p, f)) /\ ~Exit(p)
  BY <1>1 DEF Start, Exit, Gone
<1>3. NoFarther(p)
  <2>1. CASE BeginOwn(p) \/ Write(p) \/ Commit(p) \/ Rollback(p)
    BY <2>1, TransactionStep DEF NoFarther
  <2>2. ASSUME NEW c \in Client, Serve(p, c) PROVE NoFarther(p)
    <3>1. server[p].pc = "shutdown" /\ server'[p].pc = "shutdown"
      BY <2>2, ServeEffect
    <3> QED
      BY <3>1, DistanceOut DEF NoFarther
  <2> QED
    BY <1>2, <2>1, <2>2, MoveStep DEF ServeStep, NoFarther
<1>4. Proceeds(p) => Nearer(p)
  BY <1>2, TransactionStep, MoveStep DEF Proceeds
<1> QED
  BY <1>3, <1>4

\* serve never gets farther from serving or letting go, and comes nearer with
\* every step of its own, for any number of processes: the variant behind
\* StartEnds.
THEOREM StartNeverGoesBack == Spec => StartDescends
<1> DEFINE Descends == \A p \in Server : lock = p /\ server[p].pc # "serving" =>
                         /\ NoFarther(p)
                         /\ Proceeds(p) => Nearer(p)
<1>1. IInv /\ [Next]_vars => [Descends]_vars
  <2> SUFFICES ASSUME IInv, [Next]_vars, ~UNCHANGED vars,
                      NEW p \in Server, lock = p, server[p].pc # "serving"
               PROVE  NoFarther(p) /\ (Proceeds(p) => Nearer(p))
    OBVIOUS
  <2>0. TypeOK /\ JobInv /\ LockInv
    BY DEF IInv
  <2>1. ServeStep(p) => NoFarther(p) /\ (Proceeds(p) => Nearer(p))
    BY <2>0, DistanceStep
  <2>2. Proceeds(p) => ServeStep(p)
    BY DEF Proceeds, ServeStep
  <2>3. ASSUME NEW q \in Server, q # p, ServeStep(q) PROVE server'[p] = server[p]
    <3>1. Others(q)
      BY <2>0, <2>3, StartEffect, CheckEffect, BeginEffect, WriteEffect, CommitEffect,
         RollbackEffect, ListenEffect, PublishEffect, StopEffect, CloseEffect, CompareEffect,
         RemoveEffect, UnlockEffect, OffEffect, ServeEffect
      DEF ServeStep
    <3> QED
      BY <2>3, <3>1 DEF Others
  <2>4. server'[p] = server[p] => NoFarther(p)
    BY DEF NoFarther
  <2>5. CASE Quiet
    BY <2>1, <2>2, <2>4, <2>5 DEF Quiet
  <2> QED
    BY <2>1, <2>2, <2>3, <2>4, <2>5, QuietSteps
<1> QED
  BY <1>1, Invariance, PTL DEF Spec, StartDescends
=================================================================================
