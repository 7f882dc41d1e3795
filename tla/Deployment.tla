----------------------------- MODULE Deployment -----------------------------
(***************************************************************************)
(* The operator's scripts (scripts/*.js): they deploy the contracts of the *)
(* hub and of the spokes, wire them together and record the addresses      *)
(* that the agents, the pages and later scripts use.                       *)
(*                                                                         *)
(* A script is the sequence of its transactions and file writes; it may    *)
(* stop before any of them (a failed transaction, an in-flight limit, a    *)
(* nonce race), and nothing is undone.  One operator runs one script at a  *)
(* time, so what a script reads at a step it could have read at its start. *)
(* Token balances are left out: no wiring depends on them.                 *)
(***************************************************************************)
EXTENDS Naturals, Sequences, SequencesExt, FiniteSets

CONSTANTS
  Spokes,     \* the spoke chains
  MaxRuns,    \* bound: scripts started
  MaxHubRuns, \* bound: scripts started on the hub
  Scripts,    \* bound: the scripts the operator uses
  Careful     \* the operator takes an interrupted deployment of a lending contract up
              \* before any other script, with the addresses it printed, and wires
              \* Base only with a recorded lending, not with BASE_LENDING_ADDRESS

Chains == {"hub"} \cup Spokes

(* An address: a contract is the n-th of its kind on its chain.            *)
None  == <<"", "none", 0>>
Agent == <<"", "agent", 0>>
Feed  == <<"hub", "feed", 0>>   \* a Chainlink feed that exists on the hub's chain

Fields == {"sbt", "engine", "lending", "pool", "oapp", "oracle", "feed"}
Roles  == {"SCORER", "AGENT", "ADMIN"}
NoRecord == [f \in Fields |-> None]

ASSUME DeploymentAssumption ==
  /\ IsFiniteSet(Spokes) /\ Spokes \cap ({"hub", ""} \cup Fields \cup Roles) = {}
  /\ MaxRuns \in Nat /\ MaxHubRuns \in Nat /\ Careful \in BOOLEAN

(* The .env keys that name contracts.                                      *)
EnvKeys == {<<"hub", f>> : f \in {"oapp", "lending", "oracle", "sbt", "engine"}}
           \cup (Spokes \X {"oapp", "lending"})

VARIABLES
  born,      \* contracts that exist
  facts,     \* <<contract, what, value>>: constructor arguments, setters, peers, roles
  docs,      \* docs/addresses.json and docs/spoke-*-addresses.json
  front,     \* their copies under frontend/src/lib
  env,       \* the .env file
  script,    \* the script that runs: its name and chain
  todo,      \* the steps it has left
  last,      \* the script that ended last, <<"", "">> when it was interrupted
  printed,   \* contracts the script started last deployed, as its output names them
  edited,    \* spokes whose record the operator completed by hand
  runs,      \* scripts started so far
  hubRuns    \* scripts started so far on the hub

chainVars == <<born, facts>>
fileVars == <<docs, front, env>>
counters == <<runs, hubRuns>>
vars == <<chainVars, fileVars, script, todo, last, printed, edited, counters>>

Nothing == <<"", "">>
Idle == script = Nothing

New(c, k) == <<c, k, 1 + Cardinality({x \in born : x[1] = c /\ x[2] = k})>>

(***************************************************************************)
(* The steps of a script.                                                  *)
(***************************************************************************)
Create(x, with) == <<[op |-> "create", new |-> x, with |-> with]>>
Set(x, what, value) == <<[op |-> "set", fact |-> <<x, what, value>>]>>
Write(file, rec) == <<[op |-> "write", file |-> file, rec |-> rec]>>
Copy(file) == <<[op |-> "copy", file |-> file]>>
PutEnv(values) == <<[op |-> "env", values |-> values]>>
Unless(done, steps) == IF done THEN <<>> ELSE steps
SetIfMissing(x, what, value) == Unless(<<x, what, value>> \in facts, Set(x, what, value))
SetIfZero(x, what, value) ==
  Unless(\E f \in facts : f[1] = x /\ f[2] = what, Set(x, what, value))

(* A setter replaces the earlier value, a granted role stays.              *)
Put(fact) ==
  {f \in facts : f[2] \in Roles \/ f[1] # fact[1] \/ f[2] # fact[2]} \cup {fact}

(***************************************************************************)
(* The hub.                                                                *)
(***************************************************************************)
(* The role grants of a hub, in the order of deploy.js.                    *)
HubRoles(r) ==
  << <<r.sbt, "SCORER", r.engine>>, <<r.engine, "SCORER", Agent>>,
     <<r.sbt, "SCORER", Agent>>, <<r.sbt, "AGENT", Agent>>, <<r.sbt, "AGENT", r.lending>>,
     <<r.lending, "AGENT", Agent>>, <<r.oapp, "AGENT", Agent>> >>

(* Those among done are passed over.                                       *)
Grants(roles, done) ==
  FlattenSeq([i \in DOMAIN roles |->
    Unless(roles[i] \in done, Set(roles[i][1], roles[i][2], roles[i][3]))])

Deploy(feed) ==
  LET r == [f \in Fields |-> IF f = "feed" THEN None ELSE New("hub", f)] IN
  Create(r.oracle, {})
    \o Unless(feed = None, Set(r.oracle, "feed", feed))
    \o Create(r.sbt, {}) \o Create(r.engine, {<<r.engine, "sbt", r.sbt>>})
    \o Create(r.pool, {})
    \o Create(r.lending, {<<r.lending, "sbt", r.sbt>>, <<r.lending, "oracle", r.oracle>>})
    \o Create(r.oapp, {<<r.oapp, "sbt", r.sbt>>})
    \o Set(r.pool, "lending", r.lending) \o Set(r.lending, "pool", r.pool)
    \o Grants(HubRoles(r), {})
    \o Write("hub", r) \o Copy("hub")

FinishHubDeploy ==
  LET r == docs["hub"] IN
  SetIfZero(r.pool, "lending", r.lending) \o SetIfZero(r.lending, "pool", r.pool)
    \o Grants(HubRoles(r), facts)
    \o Copy("hub")

NewHubOApp ==
  LET oapp == New("hub", "oapp") IN
  Create(oapp, {<<oapp, "sbt", docs["hub"].sbt>>}) \o Set(oapp, "AGENT", Agent)
    \o Write("hub", [docs["hub"] EXCEPT !.oapp = oapp]) \o Copy("hub")

DeployOApp   == NewHubOApp
RedeployOApp == NewHubOApp

\* Mutant: recorded before the roles are granted.
DeployScoreEngine_recordsFirst ==
  LET engine == New("hub", "engine")
      sbt    == docs["hub"].sbt IN
  Create(engine, {<<engine, "sbt", sbt>>})
    \o Write("hub", [docs["hub"] EXCEPT !.engine = engine])
    \o Set(sbt, "SCORER", engine) \o Set(engine, "SCORER", Agent)

DeployScoreEngine ==
  LET engine == New("hub", "engine")
      sbt    == docs["hub"].sbt IN
  Create(engine, {<<engine, "sbt", sbt>>})
    \o Set(sbt, "SCORER", engine) \o Set(engine, "SCORER", Agent)
    \o Write("hub", [docs["hub"] EXCEPT !.engine = engine])

(* The oracle of .env comes before the recorded one; a mock feed is        *)
(* deployed when no feed is configured.                                    *)
WireOracle(feed) ==
  LET oracle == IF env[<<"hub", "oracle">>] # None THEN env[<<"hub", "oracle">>]
                ELSE docs["hub"].oracle
      f      == IF feed # None THEN feed ELSE New("hub", "feed") IN
  Unless(feed # None, Create(f, {}))
    \o SetIfMissing(oracle, "feed", f)
    \o Write("hub", [docs["hub"] EXCEPT !.oracle = oracle, !.feed = f]) \o Copy("hub")

GrantAgentRoles == SetIfMissing(docs["hub"].lending, "ADMIN", Agent)

(***************************************************************************)
(* The spokes.                                                             *)
(***************************************************************************)
\* Mutant: the new OApp is entered into the old record.
DeploySpoke_keepsRecord(s) ==
  LET oapp == New(s, "oapp") IN
  Create(oapp, {}) \o Write(s, [docs[s] EXCEPT !.oapp = oapp]) \o Copy(s)
    \o Set(oapp, "AGENT", Agent)

(* The record is written before the role is granted, and holds the OApp    *)
(* alone.                                                                  *)
DeploySpoke(s) ==
  LET oapp == New(s, "oapp") IN
  Create(oapp, {}) \o Write(s, [NoRecord EXCEPT !.oapp = oapp]) \o Copy(s)
    \o Set(oapp, "AGENT", Agent)

SpokeLending(s, oracle) ==
  LET lending == New(s, "lending") IN
  Create(lending, {<<lending, "oapp", docs[s].oapp>>, <<lending, "oracle", oracle>>})

WireSpoke(lending, pool) ==
  Set(pool, "lending", lending) \o Set(lending, "pool", pool) \o Set(lending, "AGENT", Agent)

SaveSpoke(s, oracle, pool, lending, feed) ==
  Write(s, [docs[s] EXCEPT !.oracle = oracle, !.pool = pool, !.lending = lending, !.feed = feed])
    \o Copy(s)

\* Mutant: saved before the contracts are wired.
DeploySpokeLending_savesFirst(s) ==
  LET feed == New(s, "feed")  oracle == New(s, "oracle")
      pool == New(s, "pool")  lending == New(s, "lending") IN
  Create(feed, {}) \o Create(oracle, {}) \o Set(oracle, "feed", feed) \o Create(pool, {})
    \o SpokeLending(s, oracle) \o SaveSpoke(s, oracle, pool, lending, feed)
    \o WireSpoke(lending, pool)

DeploySpokeLending(s) ==
  LET feed == New(s, "feed")  oracle == New(s, "oracle")
      pool == New(s, "pool")  lending == New(s, "lending") IN
  Create(feed, {}) \o Create(oracle, {}) \o Set(oracle, "feed", feed) \o Create(pool, {})
    \o SpokeLending(s, oracle) \o WireSpoke(lending, pool)
    \o SaveSpoke(s, oracle, pool, lending, feed)

(* The printed contract of a kind, or None.                                *)
Printed(s, k) ==
  IF \E x \in printed : x[1] = s /\ x[2] = k
  THEN CHOOSE x \in printed : x[1] = s /\ x[2] = k ELSE None

(* EXISTING_ORACLE, EXISTING_POOL, EXISTING_FEED and EXISTING_LENDING, all *)
(* typed in by hand: contracts of the spoke that some script has printed.  *)
Named(s, k) == {None} \cup {x \in born : x[1] = s /\ x[2] = k}

Existing(s) ==
  IF Careful
  THEN {[oracle |-> Printed(s, "oracle"), pool |-> Printed(s, "pool"),
         feed |-> Printed(s, "feed"), lending |-> Printed(s, "lending")]}
  ELSE [oracle : Named(s, "oracle"), pool : Named(s, "pool"),
        feed : Named(s, "feed"), lending : Named(s, "lending")]

(* finish-spoke-lending.js looks at none of them.                          *)
FinishSpokeLending(s, old) ==
  LET lending == IF old.lending # None THEN old.lending ELSE New(s, "lending") IN
  Unless(old.lending # None, SpokeLending(s, old.oracle))
    \o WireSpoke(lending, old.pool)
    \o SaveSpoke(s, old.oracle, old.pool, lending, old.feed)

(* finish-base-spoke-lending.js returns when a lending is recorded.        *)
FinishBaseLending(s) ==
  LET r == docs[s]  lending == New(s, "lending") IN
  SpokeLending(s, r.oracle) \o WireSpoke(lending, r.pool)
    \o SaveSpoke(s, r.oracle, r.pool, lending, r.feed)

RecordedLending(s) == IF docs[s].lending # None THEN docs[s].lending ELSE env[<<s, "lending">>]

FinishBaseWiring(s) ==
  LET lending == RecordedLending(s)  pool == docs[s].pool IN
  SetIfMissing(pool, "lending", lending) \o SetIfZero(lending, "pool", pool)
    \o SetIfMissing(lending, "AGENT", Agent)
    \o SaveSpoke(s, docs[s].oracle, pool, lending, docs[s].feed)

(* The OApp of .env comes before the recorded one.                         *)
GrantSpokeAgent(s) ==
  LET oapp == IF env[<<s, "oapp">>] # None THEN env[<<s, "oapp">>] ELSE docs[s].oapp IN
  SetIfMissing(oapp, "AGENT", Agent)

(* A synced mirror feed stays; DEPLOY_MIRROR=1 deploys another.            *)
SyncSpokeOracle(s, fresh) ==
  LET feed == IF fresh THEN New(s, "feed") ELSE docs[s].feed IN
  Unless(~fresh, Create(feed, {}))
    \o Unless(docs[s].oracle = None, SetIfMissing(docs[s].oracle, "feed", feed))
    \o Write(s, [docs[s] EXCEPT !.feed = feed]) \o Copy(s)

(***************************************************************************)
(* The mesh and the copies of the records.                                 *)
(***************************************************************************)
EnvHubOApp == IF env[<<"hub", "oapp">>] # None THEN env[<<"hub", "oapp">>] ELSE docs["hub"].oapp

(* set-peers.js: a spoke without its .env key is passed over.              *)
SetPeers ==
  FlattenSeq([i \in 1 .. Cardinality(Spokes) |->
    LET s == SetToSeq(Spokes)[i] IN
    Unless(env[<<s, "oapp">>] = None, Set(EnvHubOApp, s, env[<<s, "oapp">>]))])

SetPeerSpoke(s) == Set(docs[s].oapp, "hub", EnvHubOApp)

(* npm run lz:wire-spokes *)
WireSpokes ==
  SetPeers \o FlattenSeq([i \in 1 .. Cardinality(Spokes) |-> SetPeerSpoke(SetToSeq(Spokes)[i])])

(* An absent address leaves its key as it was.                             *)
SyncAddresses ==
  FlattenSeq([i \in 1 .. Cardinality(Chains) |-> Copy(SetToSeq(Chains)[i])])
    \o PutEnv([k \in {k \in EnvKeys : docs[k[1]][k[2]] # None} |-> docs[k[1]][k[2]]])

\* Mutant: the keys of the spokes are not looked at.
VerifyAddressSync_hubOnly ==
  /\ docs = front
  /\ \A k \in EnvKeys : k[1] = "hub" => env[k] # None /\ env[k] = docs[k[1]][k[2]]

(* verify-address-sync.js says OK.                                         *)
VerifyAddressSync ==
  /\ docs = front
  /\ \A k \in EnvKeys : env[k] # None /\ env[k] = docs[k[1]][k[2]]

(***************************************************************************)
(* What the operator does.                                                 *)
(***************************************************************************)
(* Scripts that change nothing when they run twice.                        *)
Repeatable == {"wire_spokes", "sync_addresses"}

Run(name, chain, steps) ==
  /\ Idle /\ name \in Scripts
  /\ name \notin Repeatable => runs < MaxRuns /\ (chain = "hub" => hubRuns < MaxHubRuns)
  /\ script' = <<name, chain>> /\ todo' = steps
  /\ last' = Nothing /\ printed' = {}
  /\ IF name \in Repeatable THEN UNCHANGED <<counters>>
     ELSE runs' = runs + 1 /\ hubRuns' = hubRuns + (IF chain = "hub" THEN 1 ELSE 0)
  /\ UNCHANGED <<chainVars, fileVars, edited>>

RunHubScript ==
  \/ \E feed \in {None, Feed} : Run("deploy", "hub", Deploy(feed))
  \/ Run("finish_hub_deploy", "hub", FinishHubDeploy)
  \/ Run("deploy_oapp", "hub", DeployOApp)
  \/ Run("redeploy_oapp", "hub", RedeployOApp)
  \/ Run("deploy_score_engine", "hub", DeployScoreEngine)
  \/ \E feed \in {None, Feed} : Run("wire_oracle", "hub", WireOracle(feed))
  \/ Run("grant_agent_roles", "hub", GrantAgentRoles)

RunSpokeScript(s) ==
  \/ Run("deploy_spoke", s, DeploySpoke(s))
  \/ docs[s].oapp # None /\ Run("deploy_spoke_lending", s, DeploySpokeLending(s))
  \/ \E old \in Existing(s) : /\ None \notin {old.oracle, old.pool, old.feed}
                             /\ Run("finish_spoke_lending", s, FinishSpokeLending(s, old))
  \/ /\ s = "base" /\ None \notin {docs[s].oapp, docs[s].oracle, docs[s].pool}
     /\ docs[s].lending = None
     /\ Run("finish_base_lending", s, FinishBaseLending(s))
  \/ /\ s = "base" /\ docs[s].pool # None /\ RecordedLending(s) # None
     /\ Careful => docs[s].lending # None
     /\ Run("finish_base_wiring", s, FinishBaseWiring(s))
  \/ Run("grant_spoke_agent", s, GrantSpokeAgent(s))
  \/ \E fresh \in BOOLEAN : (fresh \/ docs[s].feed # None)
       /\ Run("sync_spoke_oracle", s, SyncSpokeOracle(s, fresh))

RunMeshScript ==
  \/ Run("wire_spokes", "hub", WireSpokes)
  \/ Run("sync_addresses", "hub", SyncAddresses)

(* redeploy-oapp.js and deploy-spoke.js end by telling the operator to put *)
(* the new OApp into .env.                                                 *)
EditEnv(c) ==
  /\ Idle /\ last \in {<<"redeploy_oapp", c>>, <<"deploy_spoke", c>>}
  /\ env' = [env EXCEPT ![<<c, "oapp">>] = docs[c].oapp]
  /\ UNCHANGED <<chainVars, docs, front, script, todo, last, printed, edited, counters>>

(* The finish scripts of Base read the record, which the deployment writes *)
(* last of all: the operator enters what an interrupted deployment of the  *)
(* lending printed ("Set lending in spoke-base-addresses.json").           *)
EditRecord(s) ==
  LET r == docs[s]
      Enter(x, y) == IF x # None THEN x ELSE y IN
  /\ Idle /\ s = "base" /\ r.lending = None
  /\ \E old \in Existing(s) :
       /\ old.pool # None
       /\ docs' = [docs EXCEPT ![s] =
            [r EXCEPT !.oracle = Enter(old.oracle, r.oracle), !.pool = Enter(old.pool, r.pool),
                      !.feed = Enter(old.feed, r.feed), !.lending = Enter(old.lending, r.lending)]]
  /\ edited' = edited \cup {s}
  /\ UNCHANGED <<chainVars, front, env, script, todo, last, printed, counters>>

(* A script that writes a spoke's record after wiring it completes what    *)
(* was entered by hand.                                                    *)
Step ==
  /\ todo # <<>>
  /\ todo' = Tail(todo)
  /\ LET e == Head(todo) IN
     CASE e.op = "create" -> /\ born' = born \cup {e.new} /\ printed' = printed \cup {e.new}
                             /\ facts' = facts \cup e.with
                             /\ UNCHANGED <<docs, front, env, edited>>
       [] e.op = "set"    -> facts' = Put(e.fact) /\ UNCHANGED <<born, printed, docs, front, env, edited>>
       [] e.op = "write"  -> /\ docs' = [docs EXCEPT ![e.file] = e.rec]
                             /\ edited' = IF script[1] = "sync_spoke_oracle" THEN edited
                                          ELSE edited \ {e.file}
                             /\ UNCHANGED <<chainVars, printed, front, env>>
       [] e.op = "copy"   -> front' = [front EXCEPT ![e.file] = docs[e.file]]
                             /\ UNCHANGED <<chainVars, printed, docs, env, edited>>
       [] OTHER           -> env' = [k \in EnvKeys |-> IF k \in DOMAIN e.values
                                                       THEN e.values[k] ELSE env[k]]
                             /\ UNCHANGED <<chainVars, printed, docs, front, edited>>
  /\ UNCHANGED <<script, last, counters>>

Finish ==
  /\ ~Idle /\ todo = <<>>
  /\ last' = script /\ script' = Nothing
  /\ UNCHANGED <<chainVars, fileVars, todo, printed, edited, counters>>

Interrupt ==
  /\ todo # <<>>
  /\ todo' = <<>> /\ script' = Nothing /\ last' = Nothing
  /\ UNCHANGED <<chainVars, fileVars, printed, edited, counters>>

(***************************************************************************)
(* The deployment the repository records (docs/*.json): one generation of  *)
(* contracts, complete.                                                    *)
(***************************************************************************)
HubWiring(r) ==
  ToSet(HubRoles(r)) \cup
  {<<r.pool, "lending", r.lending>>, <<r.lending, "pool", r.pool>>,
   <<r.engine, "sbt", r.sbt>>, <<r.lending, "sbt", r.sbt>>, <<r.oapp, "sbt", r.sbt>>}

SpokeWiring(r) ==
  {<<r.pool, "lending", r.lending>>, <<r.lending, "pool", r.pool>>, <<r.lending, "AGENT", Agent>>,
   <<r.lending, "oapp", r.oapp>>, <<r.lending, "oracle", r.oracle>>}

First(c) ==
  [f \in Fields |-> IF c # "hub" /\ f \in {"sbt", "engine"} THEN None ELSE <<c, f, 1>>]

Init ==
  /\ docs = [c \in Chains |-> First(c)] /\ front = docs
  /\ env = [k \in EnvKeys |-> docs[k[1]][k[2]]]
  /\ born = {docs[c][f] : c \in Chains, f \in Fields} \ {None}
  /\ LET hub == First("hub") IN
     facts = HubWiring(hub)
             \cup {<<hub.lending, "oracle", hub.oracle>>, <<hub.oracle, "feed", hub.feed>>,
                   <<hub.lending, "ADMIN", Agent>>}
             \cup (UNION {SpokeWiring(First(s)) : s \in Spokes})
             \cup {<<First(s).oracle, "feed", First(s).feed>> : s \in Spokes}
             \cup {<<First(s).oapp, "AGENT", Agent>> : s \in Spokes}
             \cup {<<hub.oapp, s, First(s).oapp>> : s \in Spokes}
             \cup {<<First(s).oapp, "hub", hub.oapp>> : s \in Spokes}
  /\ script = Nothing /\ todo = <<>> /\ last = Nothing
  /\ printed = {} /\ edited = {} /\ runs = 0 /\ hubRuns = 0

Next ==
  \/ RunHubScript \/ RunMeshScript
  \/ \E s \in Spokes : RunSpokeScript(s) \/ EditRecord(s)
  \/ \E c \in Chains : EditEnv(c)
  \/ Step \/ Finish \/ Interrupt

Spec == Init /\ [][Next]_vars

(***************************************************************************)
(* Properties                                                              *)
(***************************************************************************)
(* deploy.js, deploy-oapp.js, deploy-score-engine.js and wire-oracle.js    *)
(* record a contract when it is complete: whatever scripts ran and         *)
(* wherever they stopped, the recorded hub contracts name each other and   *)
(* hold the roles they and the agents need.                                *)
RecordedHubWired == HubWiring(docs["hub"]) \subseteq facts

(* The same for a spoke: a recorded lending contract is wired to its pool, *)
(* priced by an oracle, open to the agents and reads the recorded OApp,   *)
(* also when an interrupted deployment was taken up again, by a Careful    *)
(* operator: with the addresses it had printed and before any other        *)
(* script.  A record completed by hand has to wait for its finish script.  *)
RecordedSpokeWired ==
  \A s \in Spokes \ edited : docs[s].lending # None =>
    /\ SpokeWiring(docs[s]) \subseteq facts
    /\ \E feed \in born : <<docs[s].oracle, "feed", feed>> \in facts

(* After lz:wire-spokes, if verify-address-sync.js says OK: the OApp the   *)
(* agents send through and the mirror the spoke's lending contract reads   *)
(* are each other's peers, so what the agents broadcast reaches the        *)
(* lending contract the pages use ('keeps every lending contract aligned', *)
(* README.md).  It takes a Careful operator, too: the finish script takes  *)
(* any address, also of a lending contract made for an earlier OApp.       *)
VerifiedMeshDelivers ==
  Idle /\ last = <<"wire_spokes", "hub">> /\ VerifyAddressSync =>
    \A s \in Spokes \ edited :
      \E mirror \in born :
        /\ <<front[s].lending, "oapp", mirror>> \in facts
        /\ <<EnvHubOApp, s, mirror>> \in facts
        /\ <<mirror, "hub", EnvHubOApp>> \in facts

(* grant-spoke-agent.js repairs a deploy-spoke.js that stopped before its  *)
(* grant, once .env names the recorded OApp.                               *)
GrantReachesOApp ==
  \A s \in Spokes :
    Idle /\ last = <<"grant_spoke_agent", s>> /\ VerifyAddressSync =>
      <<docs[s].oapp, "AGENT", Agent>> \in facts
=============================================================================
