------------------------- MODULE CentralBlockFactory -------------------------
(***************************************************************************)
(* SaberCentralBlockFactory (src/saber/blocks/SaberCentralBlockBase.cc):   *)
(* the process-wide map from central block names to makers.  Each         *)
(* translation unit linked into the executable holds a static maker       *)
(* object (makerID_ in part_004, makerSpectralCorrelation_ and            *)
(* makerSPNOINTERP_COV_ in part_001) whose constructor registers its name *)
(* during static initialisation, in an order C++ leaves unspecified.  An  *)
(* exception escaping a static initialiser ends the process.  Once main   *)
(* runs, chain assembly looks names up with create and createParameters.  *)
(***************************************************************************)
EXTENDS Naturals

CONSTANTS
  Registrations,  \* the static makers of all units: records [unit, name]
  Names           \* the names a configuration may ask for

Units == {r.unit : r \in Registrations}
RegisteredNames == {r.name : r \in Registrations}

ASSUME NamesAssumption == RegisteredNames \subseteq Names

VARIABLES
  linked,     \* the makers of the units linked into this executable
  pending,    \* the makers whose static initialiser has not yet run
  makers,     \* getMakers(): a set of <<name, unit>> pairs
  phase,      \* "static" (initialisation), "main", "terminated", "failed"
  made        \* the <<name, unit>> of every block create has made

vars == <<linked, pending, makers, phase, made>>

\* The names getMakers() holds.
Keys(m) == {p[1] : p \in m}

Init ==
  /\ linked \in SUBSET Registrations
  /\ pending = linked
  /\ makers = {}
  /\ phase = "static"
  /\ made = {}

\* Mutant: the duplicate check dropped, a later maker replacing the first.
RegisterOverwrite(r) ==
  /\ phase = "static"
  /\ r \in pending
  /\ pending' = pending \ {r}
  /\ makers' = {p \in makers : p[1] # r.name} \cup {<<r.name, r.unit>>}
  /\ UNCHANGED <<linked, phase, made>>

\* The maker constructor: a name already in getMakers() throws (and the
\* exception ends the process), else getMakers()[name] = this.
Register(r) ==
  /\ phase = "static"
  /\ r \in pending
  /\ pending' = pending \ {r}
  /\ IF r.name \in Keys(makers)
     THEN /\ phase' = "terminated"
          /\ UNCHANGED makers
     ELSE /\ makers' = makers \cup {<<r.name, r.unit>>}
          /\ UNCHANGED phase
  /\ UNCHANGED <<linked, made>>

\* main starts once every static initialiser has run.
StartMain ==
  /\ phase = "static"
  /\ pending = {}
  /\ phase' = "main"
  /\ UNCHANGED <<linked, pending, makers, made>>

\* Mutant: the end() check dropped; the iterator past the end is
\* dereferenced and some maker is called.
CreateUnchecked ==
  /\ phase = "main"
  /\ \E id \in Names, u \in Units :
       /\ made' = made \cup IF id \in Keys(makers)
                           THEN {p \in makers : p[1] = id}
                           ELSE {<<id, u>>}
       /\ UNCHANGED phase
  /\ UNCHANGED <<linked, pending, makers>>

\* create(params): find the name, throw UserError when it is missing,
\* else call the maker found.
Create ==
  /\ phase = "main"
  /\ \E id \in Names :
       IF id \in Keys(makers)
       THEN /\ made' = made \cup {p \in makers : p[1] = id}
            /\ UNCHANGED phase
       ELSE /\ phase' = "failed"
            /\ UNCHANGED made
  /\ UNCHANGED <<linked, pending, makers>>

\* createParameters(name): the same lookup, std::runtime_error when the
\* name is missing; it makes no block.
CreateParameters ==
  /\ phase = "main"
  /\ \E id \in Names :
       /\ id \notin Keys(makers)
       /\ phase' = "failed"
  /\ UNCHANGED <<linked, pending, makers, made>>

Next ==
  \/ \E r \in Registrations : Register(r)
  \/ StartMain
  \/ Create
  \/ CreateParameters

Spec == Init /\ [][Next]_vars

-----------------------------------------------------------------------------
TypeOK ==
  /\ linked \subseteq Registrations
  /\ pending \subseteq linked
  /\ makers \subseteq Names \X Units
  /\ phase \in {"static", "main", "terminated", "failed"}
  /\ made \subseteq makers

\* Spec 2, 5 and 9: registration is checked, not order dependent.
\* Whatever order the static initialisers run in, main starts with one
\* maker per linked name, the one of the unit that registers it; a build
\* that links two makers of one name never reaches main.
RegistryMatchesLinked ==
  phase \in {"main", "failed"} =>
    /\ makers = {<<r.name, r.unit>> : r \in linked}
    /\ \A p, q \in makers : p[1] = q[1] => p = q
=============================================================================
