--------------------------- MODULE IdentityProofs ---------------------------
(***************************************************************************)
(* Proofs about Identity, for every set of entries, brokers and topics and *)
(* any number of things, ids and uses of the config flow.                  *)
(***************************************************************************)
EXTENDS Identity, WellFoundedInduction, TLAPS

Tokens == {stack_id_from_broker(b) : b \in Brokers}

Prefixes ==
  Tokens \cup {stack_id_from_topic(b) : b \in Brokers}
         \cup {Prefix("entry", e) : e \in Entries}

States == {"none", "pending", "running", "failed", "stuck"}

EntryRecord ==
  [exists : BOOLEAN, broker : Brokers \cup {NoBroker},
   stack_id : Tokens \cup {NoPrefix}, unique_id : Brokers \cup {NoBroker}]

ItemRecord == [id : Ids, entry : Entries, thing : 1 .. Things, prefix : Prefixes]

DeletedRecord ==
  [id : Ids, thing : 1 .. Things, prefix : Prefixes, broker : Brokers \cup {NoBroker}]

EntriesOK ==
  /\ entry \in [Entries -> EntryRecord] /\ state \in [Entries -> States]
  /\ \A e \in Entries : entry[e].exists <=> state[e] # "none"
  /\ form \in [Entries -> Brokers \cup {NoBroker}]
  /\ flows \in 0 .. MaxFlows /\ halted \subseteq Existing

\* An id, or a prefix and a thing, name at most one item.
Registry(I) ==
  /\ I \subseteq ItemRecord
  /\ \A i, j \in I :
       i.id = j.id \/ (i.prefix = j.prefix /\ i.thing = j.thing) => i = j

OwnersExist == \A i \in items : entry[i.entry].exists

\* What the registry keeps of removed entries names nothing twice either, and
\* what was running when it was removed had migrated.
Graveyard ==
  /\ deleted \subseteq DeletedRecord
  /\ \A d, c \in deleted :
       d.id = c.id \/ (d.prefix = c.prefix /\ d.thing = c.thing) => d = c
  /\ \A i \in items, d \in deleted : i.id # d.id
  /\ \A d \in deleted :
       d.broker \in Brokers => d.prefix = stack_id_from_broker(d.broker)

\* The next migration of e finds the item i.
Traceable(e, i) ==
  \/ i.prefix \in {Prefix("entry", e), entry[e].stack_id} /\ state[e] # "running"
  \/ /\ state[e] = "pending" /\ entry[e].broker \in Brokers
     /\ i.prefix = stack_id_from_topic(entry[e].broker)
  \/ /\ state[e] = "running" /\ entry[e].broker \in Brokers
     /\ entry[e].stack_id = CurrentPrefix(e) /\ i.prefix = CurrentPrefix(e)

AllTraceable == \A e \in Entries \ halted : \A i \in Mine(e) : Traceable(e, i)

\* An entry that runs, or could not be unloaded, has been set up.
SetUp ==
  \A e \in Entries :
    /\ state[e] = "running" => /\ entry[e].broker \in Brokers
                               /\ entry[e].stack_id = CurrentPrefix(e)
    /\ entry[e].stack_id \in Tokens => entry[e].broker \in Brokers

IInv ==
  /\ EntriesOK /\ Registry(items) /\ OwnersExist /\ Graveyard
  /\ SetUp /\ AllTraceable /\ OneIdPerThing

-----------------------------------------------------------------------------

LEMMA MinIsLeast ==
  ASSUME NEW S \in SUBSET Nat, S # {}
  PROVE  Min(S) \in S /\ \A y \in S : Min(S) <= y
<1> DEFINE Less == {ss \in Nat \X Nat : ss[1] < ss[2]}
<1>1. IsWellFoundedOn(Less, Nat)
  BY NatLessThanWellFounded DEF OpToRel
<1>2. PICK x \in S : \A y \in S : ~(<<y, x>> \in Less)
  <2> HIDE DEF Less
  <2> QED BY <1>1, WFMin
<1>3. ASSUME NEW y \in S PROVE x <= y
  <2>1. <<y, x>> \in Nat \X Nat
    OBVIOUS
  <2>2. ~(y < x)
    BY <1>2, <2>1
  <2> QED
    BY <2>2
<1> QED
  BY <1>3 DEF Min

LEMMA PrefixesDiffer ==
  /\ \A e, f, t, b : /\ Prefix("entry", e) # Prefix("topic", t)
                     /\ Prefix("entry", e) # Prefix("broker", b)
                     /\ Prefix("topic", t) # Prefix("broker", b)
                     /\ Prefix("entry", e) # NoPrefix
                     /\ Prefix("topic", t) # NoPrefix
                     /\ Prefix("broker", b) # NoPrefix
  /\ \A b, c : Prefix("broker", b) = Prefix("broker", c) => b = c
  BY DEF Prefix, NoPrefix

LEMMA CurrentPrefixType ==
  ASSUME NEW e \in Entries, entry[e].broker \in Brokers
  PROVE  CurrentPrefix(e) \in Tokens
  BY DEF CurrentPrefix, Tokens

\* What a migration, finished or not, makes of the registry.
Replacement(e, i) == [i EXCEPT !.prefix = CurrentPrefix(e)]

LEMMA Renaming ==
  ASSUME IInv, NEW e \in Entries, entry[e].broker \in Brokers,
         NEW some \in SUBSET Outdated(e),
         \A i \in some : \A j \in items :
           j # i /\ j.thing = i.thing => j.prefix # CurrentPrefix(e) /\ j \notin some
  PROVE  /\ Registry(Renamed(e, some))
         /\ \A j \in Renamed(e, some) :
              \/ j \in items \ some
              \/ \E i \in some : j = Replacement(e, i)
         /\ \A i \in some : /\ Replacement(e, i).id = i.id
                            /\ Replacement(e, i).entry = e
                            /\ Replacement(e, i).thing = i.thing
                            /\ Replacement(e, i).prefix = CurrentPrefix(e)
<1>1. some \subseteq items /\ items \subseteq ItemRecord
  BY DEF IInv, Registry, Outdated, Mine
<1>2. \A i \in some : i.entry = e
  BY DEF Outdated, Mine
<1>3. CurrentPrefix(e) \in Prefixes
  BY CurrentPrefixType DEF Prefixes
<1>4. \A i \in some : /\ Replacement(e, i) \in ItemRecord
                      /\ Replacement(e, i).id = i.id
                      /\ Replacement(e, i).entry = e
                      /\ Replacement(e, i).thing = i.thing
                      /\ Replacement(e, i).prefix = CurrentPrefix(e)
  BY <1>1, <1>2, <1>3 DEF Replacement, ItemRecord
<1>5. \A j \in Renamed(e, some) :
        j \in items \ some \/ \E i \in some : j = Replacement(e, i)
  BY DEF Renamed, Replacement
<1>6. Renamed(e, some) \subseteq ItemRecord
  BY <1>1, <1>4, <1>5
<1>7. ASSUME NEW k \in Renamed(e, some), NEW l \in Renamed(e, some),
             k.id = l.id \/ (k.prefix = l.prefix /\ k.thing = l.thing)
      PROVE  k = l
  <2>1. CASE k \in items \ some /\ l \in items \ some
    BY <1>7, <2>1 DEF IInv, Registry
  <2>2. ASSUME NEW i \in some, k = Replacement(e, i), l \in items \ some PROVE FALSE
    BY <1>1, <1>4, <1>7, <2>2 DEF IInv, Registry
  <2>3. ASSUME NEW i \in some, l = Replacement(e, i), k \in items \ some PROVE FALSE
    BY <1>1, <1>4, <1>7, <2>3 DEF IInv, Registry
  <2>4. ASSUME NEW i \in some, NEW j \in some,
               k = Replacement(e, i), l = Replacement(e, j)
        PROVE  i = j
    BY <1>1, <1>4, <1>7, <2>4 DEF IInv, Registry
  <2> QED
    BY <1>5, <2>1, <2>2, <2>3, <2>4
<1> QED
  BY <1>4, <1>5, <1>6, <1>7 DEF Registry

\* The two migrations rename without a clash.
LEMMA SetupRenames ==
  ASSUME IInv, NEW e \in Entries, Refused(e) = {}
  PROVE  \A i \in Outdated(e) : \A j \in items :
           j # i /\ j.thing = i.thing
             => j.prefix # CurrentPrefix(e) /\ j \notin Outdated(e)
<1> SUFFICES ASSUME NEW i \in Outdated(e), NEW j \in items,
                    j # i, j.thing = i.thing
             PROVE  j.prefix # CurrentPrefix(e) /\ j \notin Outdated(e)
  OBVIOUS
<1>1. i \in items /\ i.id # j.id /\ i.id \in Nat /\ j.id \in Nat
  BY IdentityAssumption DEF IInv, Registry, ItemRecord, Outdated, Mine
<1>2. i \notin Refused(e) /\ j \notin Refused(e)
  OBVIOUS
<1> QED
  BY <1>1, <1>2 DEF Refused

LEMMA HaltedRenames ==
  ASSUME IInv, NEW e \in Entries, Refused(e) # {},
         NEW first, first = Min({i.id : i \in Refused(e)})
  PROVE  \A i \in {i \in Outdated(e) : i.id < first} : \A j \in items :
           j # i /\ j.thing = i.thing
             => j.prefix # CurrentPrefix(e) /\ j \notin {k \in Outdated(e) : k.id < first}
<1> DEFINE some == {i \in Outdated(e) : i.id < first}
<1>1. Refused(e) \subseteq items /\ some \subseteq items
  BY DEF Refused, Outdated, Mine
<1>2. \A i \in items : i.id \in Nat
  BY IdentityAssumption DEF IInv, Registry, ItemRecord
<1>3. \A i \in Refused(e) : first <= i.id
  <2>1. {i.id : i \in Refused(e)} \in SUBSET Nat /\ {i.id : i \in Refused(e)} # {}
    BY <1>1, <1>2
  <2> QED
    BY <2>1, MinIsLeast
<1>4. first \in Nat
  <2>1. {i.id : i \in Refused(e)} \in SUBSET Nat /\ {i.id : i \in Refused(e)} # {}
    BY <1>1, <1>2
  <2> QED
    BY <2>1, MinIsLeast
<1>5. \A i \in some : i \notin Refused(e)
  BY <1>1, <1>2, <1>3, <1>4
<1> SUFFICES ASSUME NEW i \in some, NEW j \in items, j # i, j.thing = i.thing
             PROVE  j.prefix # CurrentPrefix(e) /\ j \notin some
  OBVIOUS
<1>6. i \in items /\ i.id # j.id /\ i.id \in Nat /\ j.id \in Nat
  BY <1>1, <1>2 DEF IInv, Registry
<1> QED
  BY <1>1, <1>5, <1>6 DEF Refused

-----------------------------------------------------------------------------

LEMMA InitInv == Init => IInv
<1> SUFFICES ASSUME Init PROVE IInv
  OBVIOUS
<1>1. CASE /\ entry = [e \in Entries |-> Absent]
           /\ state = [e \in Entries |-> "none"]
           /\ items = {}
  <2>1. EntriesOK
    BY <1>1, IdentityAssumption
       DEF Init, EntriesOK, EntryRecord, States, Absent, Existing
  <2>2. SetUp
    BY <1>1, PrefixesDiffer DEF SetUp, Absent, Tokens, stack_id_from_broker
  <2> QED
    BY <1>1, <2>1, <2>2 DEF Init, IInv, Registry, OwnersExist, Graveyard,
                            AllTraceable, Mine, OneIdPerThing
<1>2. ASSUME NEW e \in Entries, NEW old \in LegacyEntries(e),
             entry = [f \in Entries |-> IF f = e THEN old.made ELSE Absent],
             state = [f \in Entries |-> IF f = e THEN "pending" ELSE "none"],
             items = old.items
      PROVE  IInv
  <2>1. PICK b \in Brokers \cup {NoBroker}, u \in Brokers \cup {NoBroker},
             p \in Prefixes :
          /\ old = Legacy(e, b, p, u)
          /\ p = Prefix("entry", e) \/ (b \in Brokers /\ p = stack_id_from_topic(b))
    BY <1>2 DEF LegacyEntries, Prefixes
  <2>2. old.made \in EntryRecord /\ old.made.exists /\ old.made.broker = b
        /\ old.made.stack_id = NoPrefix
    BY <2>1 DEF Legacy, EntryRecord
  <2>3. items = {[id |-> Min(Ids), entry |-> e, thing |-> 1, prefix |-> p]}
    BY <1>2, <2>1 DEF Legacy
  <2>4. Min(Ids) \in Ids
    BY IdentityAssumption, MinIsLeast
  <2>5. Registry(items)
    BY <2>3, <2>4, IdentityAssumption DEF Registry, ItemRecord
  <2>6. EntriesOK /\ OwnersExist
    BY <1>2, <2>2, <2>3, IdentityAssumption
       DEF Init, EntriesOK, EntryRecord, States, Absent, Existing, OwnersExist
  <2>7. Graveyard /\ OneIdPerThing
    BY <2>3 DEF Init, Graveyard, OneIdPerThing
  <2>8. SetUp
    BY <1>2, <2>2, PrefixesDiffer DEF SetUp, Absent, Tokens, stack_id_from_broker
  <2>9. AllTraceable
    BY <1>2, <2>1, <2>2, <2>3, PrefixesDiffer DEF AllTraceable, Mine, Traceable
  <2> QED
    BY <2>5, <2>6, <2>7, <2>8, <2>9 DEF IInv
<1> QED
  BY <1>1, <1>2 DEF Init

LEMMA StutterInv == IInv /\ UNCHANGED vars => IInv'
  BY DEF IInv, vars, EntriesOK, Existing, Registry, OwnersExist, Graveyard, SetUp,
         CurrentPrefix, AllTraceable, Mine, Traceable, OneIdPerThing

\* The config flow and a refused setup leave the registry alone: of what is
\* said about it only Traceable is at stake.
LEMMA RegistryAlone ==
  ASSUME IInv, UNCHANGED <<items, deleted, halted>>,
         EntriesOK', OwnersExist', SetUp', AllTraceable'
  PROVE  IInv'
  BY DEF IInv, Registry, Graveyard, OneIdPerThing

\* A form being tried touches nothing else.
LEMMA FormInv ==
  ASSUME IInv, form' \in [Entries -> Brokers \cup {NoBroker}], flows' \in 0 .. MaxFlows,
         UNCHANGED <<entry, state, items, deleted, halted>>
  PROVE  IInv'
<1>1. EntriesOK' /\ OwnersExist' /\ SetUp' /\ AllTraceable'
  BY DEF IInv, EntriesOK, Existing, OwnersExist, SetUp, CurrentPrefix, AllTraceable,
         Mine, Traceable
<1> QED
  BY <1>1, RegistryAlone

LEMMA SubmitInv ==
  ASSUME IInv, NEW e \in Entries, NEW b \in Brokers, Submit(e, b)
  PROVE  IInv'
<1>1. flows' \in 0 .. MaxFlows
  BY IdentityAssumption DEF IInv, Submit, EntriesOK
<1>2. form' \in [Entries -> Brokers \cup {NoBroker}]
  BY DEF IInv, Submit, EntriesOK
<1> QED
  BY <1>1, <1>2, FormInv DEF Submit

LEMMA ShowAgainInv ==
  ASSUME IInv, NEW e \in Entries, ShowAgain(e)
  PROVE  IInv'
  BY FormInv DEF IInv, ShowAgain, EntriesOK

LEMMA AcceptedForm ==
  ASSUME IInv, NEW e \in Entries, NEW b \in Brokers, Accepted(e, b)
  PROVE  form' \in [Entries -> Brokers \cup {NoBroker}] /\ flows' \in 0 .. MaxFlows
  BY DEF IInv, Accepted, EntriesOK

LEMMA CreateEntryInv ==
  ASSUME IInv, NEW e \in Entries, NEW b \in Brokers, CreateEntry(e, b)
  PROVE  IInv'
<1>1. EntriesOK'
  <2>1. form' \in [Entries -> Brokers \cup {NoBroker}] /\ flows' \in 0 .. MaxFlows
    BY AcceptedForm DEF CreateEntry
  <2>2. entry' \in [Entries -> EntryRecord] /\ state' \in [Entries -> States]
    BY DEF IInv, CreateEntry, EntriesOK, EntryRecord, States
  <2>3. /\ \A f \in Entries : entry'[f].exists <=> state'[f] # "none"
        /\ halted' \subseteq Existing'
    BY DEF IInv, CreateEntry, EntriesOK, Existing
  <2> QED
    BY <2>1, <2>2, <2>3 DEF EntriesOK
<1>2. Mine(e) = {} /\ OwnersExist'
  BY DEF IInv, CreateEntry, EntriesOK, OwnersExist, Mine
<1>3. SetUp'
  BY PrefixesDiffer DEF IInv, CreateEntry, EntriesOK, SetUp, CurrentPrefix, Tokens,
                        stack_id_from_broker
<1>4. AllTraceable'
  BY <1>2 DEF IInv, CreateEntry, EntriesOK, AllTraceable, Mine, Traceable, CurrentPrefix
<1> QED
  BY <1>1, <1>2, <1>3, <1>4, RegistryAlone DEF CreateEntry

LEMMA ReconfigureInv ==
  ASSUME IInv, NEW e \in Entries, NEW b \in Brokers, Reconfigure(e, b)
  PROVE  IInv'
<1>1. /\ entry' = [entry EXCEPT ![e] = Merged(e, b)]
      /\ Merged(e, b) \in EntryRecord /\ Merged(e, b).exists = entry[e].exists
      /\ Merged(e, b).broker = b /\ Merged(e, b).stack_id = entry[e].stack_id
  BY DEF IInv, Reconfigure, Merged, EntriesOK, EntryRecord
<1>2. EntriesOK'
  <2>1. form' \in [Entries -> Brokers \cup {NoBroker}] /\ flows' \in 0 .. MaxFlows
    BY AcceptedForm DEF Reconfigure
  <2>2. entry' \in [Entries -> EntryRecord] /\ state' \in [Entries -> States]
    BY <1>1 DEF IInv, Reconfigure, EntriesOK, States
  <2>3. /\ \A f \in Entries : entry'[f].exists <=> state'[f] # "none"
        /\ halted' \subseteq Existing'
    BY <1>1 DEF IInv, Reconfigure, EntriesOK, Existing
  <2> QED
    BY <2>1, <2>2, <2>3 DEF EntriesOK
<1>3. OwnersExist'
  BY <1>1 DEF IInv, Reconfigure, EntriesOK, OwnersExist
<1>4. state'[e] \in {"pending", "stuck"} /\ \A f \in Entries \ {e} : state'[f] = state[f]
  BY DEF IInv, Reconfigure, EntriesOK
<1>5. SetUp'
  BY <1>1, <1>4 DEF IInv, EntriesOK, SetUp, CurrentPrefix
<1>6. AllTraceable'
  BY <1>1, <1>4 DEF IInv, Reconfigure, EntriesOK, AllTraceable, Mine, Traceable, CurrentPrefix
<1> QED
  BY <1>2, <1>3, <1>5, <1>6, RegistryAlone DEF Reconfigure

LEMMA SetupRefusedInv ==
  ASSUME IInv, NEW e \in Entries, SetupRefused(e)
  PROVE  IInv'
<1>1. EntriesOK' /\ OwnersExist' /\ SetUp'
  BY DEF IInv, SetupRefused, EntriesOK, States, Existing, OwnersExist, SetUp, CurrentPrefix
<1>2. AllTraceable'
  BY IdentityAssumption
     DEF IInv, SetupRefused, EntriesOK, States, AllTraceable, Mine, Traceable, CurrentPrefix
<1> QED
  BY <1>1, <1>2, RegistryAlone DEF SetupRefused

LEMMA RestartInv ==
  ASSUME IInv, Restart
  PROVE  IInv'
<1>1. EntriesOK' /\ OwnersExist' /\ SetUp'
  BY DEF IInv, Restart, EntriesOK, States, Existing, OwnersExist, SetUp, CurrentPrefix
<1>2. AllTraceable'
  BY DEF IInv, Restart, EntriesOK, OwnersExist, AllTraceable, Mine, Traceable, CurrentPrefix
<1> QED
  BY <1>1, <1>2, RegistryAlone DEF Restart

\* Of a renaming that changes no other entry than e, what is left to show is
\* that the items of e are found again.
LEMMA RenamingInv ==
  ASSUME IInv, NEW e \in Entries, entry[e].broker \in Brokers,
         NEW some \in SUBSET Outdated(e),
         \A i \in some : \A j \in items :
           j # i /\ j.thing = i.thing => j.prefix # CurrentPrefix(e) /\ j \notin some,
         items' = Renamed(e, some), UNCHANGED deleted,
         EntriesOK', SetUp', OneIdPerThing',
         \A f \in Entries \ {e} :
           entry'[f] = entry[f] /\ state'[f] = state[f] /\ (f \in halted' <=> f \in halted),
         entry'[e].exists,
         e \notin halted' => \A i \in items' : i.entry = e => Traceable(e, i)'
  PROVE  IInv'
<1>1. Registry(items')
  BY Renaming
<1>2. \A j \in items' : j \in items \/ (j.entry = e /\ \E i \in items : i.id = j.id)
  <2>1. some \subseteq items
    BY DEF Outdated, Mine
  <2> QED
    BY <2>1, Renaming
<1>3. OwnersExist'
  BY <1>1, <1>2 DEF IInv, OwnersExist, Registry, ItemRecord
<1>4. Graveyard'
  BY <1>2 DEF IInv, Graveyard
<1>5. AllTraceable'
  <2> SUFFICES ASSUME NEW f \in (Entries \ halted)', NEW i \in items', i.entry = f
               PROVE  Traceable(f, i)'
    BY DEF AllTraceable, Mine
  <2>1. CASE f = e
    BY <2>1
  <2>2. CASE f # e
    <3>1. i \in items /\ Traceable(f, i)
      BY <1>2, <2>2 DEF IInv, AllTraceable, Mine
    <3> QED
      BY <2>2, <3>1 DEF Traceable, CurrentPrefix
  <2> QED
    BY <2>1, <2>2
<1> QED
  BY <1>1, <1>3, <1>4, <1>5 DEF IInv, Registry

LEMMA MigrationFailsInv ==
  ASSUME IInv, NEW e \in Entries, MigrationFails(e)
  PROVE  IInv'
<1> DEFINE first == Min({i.id : i \in Refused(e)})
           some == {i \in Outdated(e) : i.id < first}
<1>1. entry[e].broker \in Brokers /\ entry[e].exists
  BY DEF IInv, MigrationFails, EntriesOK, EntryRecord
<1>2. \A i \in some : \A j \in items :
        j # i /\ j.thing = i.thing => j.prefix # CurrentPrefix(e) /\ j \notin some
  BY HaltedRenames DEF MigrationFails
<1>3. items' = Renamed(e, some) /\ some \in SUBSET Outdated(e)
  BY DEF MigrationFails
<1> HIDE DEF some
<1>4. EntriesOK' /\ SetUp'
  BY <1>1 DEF IInv, MigrationFails, EntriesOK, States, Existing, SetUp, CurrentPrefix
<1>5. \A j \in items' : j \in items \/ j.entry = e
  BY <1>1, <1>2, <1>3, Renaming
<1>6. OneIdPerThing'
  BY <1>5 DEF IInv, MigrationFails, OneIdPerThing
<1>7. \A f \in Entries \ {e} :
        entry'[f] = entry[f] /\ state'[f] = state[f] /\ (f \in halted' <=> f \in halted)
  BY DEF IInv, MigrationFails, EntriesOK
<1>8. e \in halted' /\ UNCHANGED deleted /\ entry'[e].exists
  BY <1>1 DEF MigrationFails
<1> QED
  BY <1>1, <1>2, <1>3, <1>4, <1>6, <1>7, <1>8, RenamingInv

LEMMA SetupInv ==
  ASSUME IInv, NEW e \in Entries, Setup(e)
  PROVE  IInv'
<1> DEFINE some == Outdated(e)
<1>1. entry[e].broker \in Brokers /\ entry[e].exists
  BY DEF IInv, Setup, EntriesOK, EntryRecord
<1>2. \A i \in some : \A j \in items :
        j # i /\ j.thing = i.thing => j.prefix # CurrentPrefix(e) /\ j \notin some
  BY SetupRenames DEF Setup
<1>3. items' = Renamed(e, some) /\ some \in SUBSET Outdated(e)
  BY DEF Setup
<1>4. CurrentPrefix(e) \in Tokens /\ CurrentPrefix(e)' = CurrentPrefix(e)
  BY <1>1, CurrentPrefixType DEF IInv, Setup, EntriesOK, EntryRecord, CurrentPrefix
<1>5. /\ entry' \in [Entries -> EntryRecord] /\ entry'[e].broker = entry[e].broker
      /\ entry'[e].exists /\ entry'[e].stack_id = CurrentPrefix(e)
      /\ state' = [state EXCEPT ![e] = "running"]
      /\ \A f \in Entries \ {e} : entry'[f] = entry[f]
  BY <1>1, <1>4 DEF IInv, Setup, EntriesOK, EntryRecord
<1>6. EntriesOK' /\ SetUp'
  BY <1>1, <1>4, <1>5
     DEF IInv, Setup, EntriesOK, States, Existing, SetUp, CurrentPrefix
<1>7. /\ some \subseteq items
      /\ \A j \in items' :
           \/ j \in items \ some
           \/ \E i \in some : /\ j = Replacement(e, i) /\ j.entry = e
                              /\ j.thing = i.thing /\ j.prefix = CurrentPrefix(e)
  <2>1. some \subseteq items
    BY DEF Outdated, Mine
  <2> HIDE DEF some
  <2> QED
    BY <1>1, <1>2, <1>3, <2>1, Renaming
<1>8. OneIdPerThing'
  <2> SUFFICES ASSUME NEW k \in items', NEW l \in items', k.entry = l.entry,
                      k.thing = l.thing, k.entry \notin halted'
               PROVE  k = l
    BY DEF OneIdPerThing
  <2>1. halted' = halted /\ \A i \in some : i.entry = e
    BY DEF Setup, Outdated, Mine
  <2> HIDE DEF some
  <2> QED
    BY <1>7, <2>1 DEF IInv, OneIdPerThing
<1>9. ASSUME e \notin halted', NEW i \in items', i.entry = e
      PROVE  Traceable(e, i)'
  <2>1. e \notin halted /\ state'[e] = "running"
    BY <1>5, <1>9 DEF IInv, Setup, EntriesOK
  <2>2. i.prefix = CurrentPrefix(e)
    <3>1. CASE i \in items \ some
      <4>1. Traceable(e, i) /\ state[e] = "pending" /\ i \in Mine(e)
        BY <1>9, <2>1, <3>1 DEF IInv, AllTraceable, Mine, Setup
      <4>2. i.prefix # NoPrefix
        BY <1>7, <3>1, PrefixesDiffer
           DEF IInv, Registry, ItemRecord, Prefixes, Tokens, stack_id_from_broker,
               stack_id_from_topic
      <4> QED
        BY <3>1, <4>1, <4>2 DEF Traceable, Outdated, OldPrefixes
    <3> QED
      BY <1>7, <3>1
  <2> QED
    BY <1>1, <1>4, <1>5, <2>1, <2>2 DEF Traceable
<1>10. \A f \in Entries \ {e} :
         entry'[f] = entry[f] /\ state'[f] = state[f] /\ (f \in halted' <=> f \in halted)
  BY <1>5 DEF IInv, Setup, EntriesOK
<1>11. UNCHANGED deleted
  BY DEF Setup
<1> HIDE DEF some
<1> QED
  BY <1>1, <1>2, <1>3, <1>5, <1>6, <1>8, <1>9, <1>10, <1>11, RenamingInv

\* A new item, restored or made, under an id and a prefix nobody has.
LEMMA AdditionInv ==
  ASSUME IInv, NEW e \in Entries, state[e] = "running",
         NEW thing \in 1 .. Things, thing \notin Known(e),
         \A i \in items : ~(i.prefix = CurrentPrefix(e) /\ i.thing = thing),
         NEW id \in Ids, \A i \in items : i.id # id,
         items' = items \cup {Item(id, e, thing)},
         deleted' \subseteq deleted, \A d \in deleted' : d.id # id,
         UNCHANGED <<entry, state, form, flows, halted>>
  PROVE  IInv'
<1> DEFINE new == Item(id, e, thing)
<1>1. entry[e].broker \in Brokers /\ entry[e].stack_id = CurrentPrefix(e)
  BY DEF IInv, SetUp
<1>2. CurrentPrefix(e) \in Prefixes
  BY <1>1, CurrentPrefixType DEF Prefixes
<1>3. /\ new \in ItemRecord /\ new.id = id /\ new.entry = e
      /\ new.thing = thing /\ new.prefix = CurrentPrefix(e)
  BY <1>2 DEF Item, ItemRecord
<1> HIDE DEF new
<1>4. EntriesOK' /\ SetUp'
  BY DEF IInv, EntriesOK, Existing, SetUp, CurrentPrefix
<1>5. Registry(items')
  BY <1>3 DEF IInv, Registry, new
<1>6. OwnersExist'
  BY <1>3 DEF IInv, EntriesOK, OwnersExist, new
<1>7. Graveyard'
  BY <1>3 DEF IInv, Graveyard, new
<1>8. AllTraceable'
  <2>1. Traceable(e, new)
    BY <1>1, <1>3 DEF Traceable
  <2> QED
    BY <1>3, <2>1 DEF IInv, AllTraceable, Mine, Traceable, CurrentPrefix, new
<1>9. OneIdPerThing'
  <2>1. ASSUME NEW i \in items, i.entry = e, e \notin halted PROVE i.thing # thing
    <3>1. i.prefix = CurrentPrefix(e)
      BY <2>1 DEF IInv, AllTraceable, Mine, Traceable
    <3> QED
      BY <2>1, <3>1 DEF Known, Mine
  <2> QED
    BY <1>3, <2>1 DEF IInv, OneIdPerThing, new
<1> QED
  BY <1>4, <1>5, <1>6, <1>7, <1>8, <1>9 DEF IInv, Registry

\* An item that exists changes hands.
LEMMA TakeoverInv ==
  ASSUME IInv, NEW e \in Entries, state[e] = "running",
         NEW thing \in 1 .. Things, thing \notin Known(e),
         NEW held, held = {i \in items : i.prefix = CurrentPrefix(e) /\ i.thing = thing},
         items' = (items \ held) \cup {[i EXCEPT !.entry = e] : i \in held},
         deleted' \subseteq deleted,
         UNCHANGED <<entry, state, form, flows, halted>>
  PROVE  IInv'
<1>1. entry[e].broker \in Brokers /\ entry[e].stack_id = CurrentPrefix(e)
  BY DEF IInv, SetUp
<1> DEFINE Taken(i) == [i EXCEPT !.entry = e]
<1>2. \A i \in held : /\ Taken(i) \in ItemRecord
                      /\ Taken(i).id = i.id /\ Taken(i).entry = e
                      /\ Taken(i).thing = i.thing /\ Taken(i).prefix = i.prefix
  BY DEF IInv, Registry, ItemRecord
<1>3. \A j \in items' :
        \/ j \in items \ held
        \/ \E i \in held : /\ j = Taken(i) /\ j \in ItemRecord
                           /\ j.id = i.id /\ j.entry = e
                           /\ j.thing = i.thing /\ j.prefix = i.prefix
  <2>1. items' = (items \ held) \cup {Taken(i) : i \in held}
    OBVIOUS
  <2> HIDE DEF Taken
  <2> QED
    BY <1>2, <2>1
<1> HIDE DEF Taken
<1>4. EntriesOK' /\ SetUp'
  BY DEF IInv, EntriesOK, Existing, SetUp, CurrentPrefix
<1>5. Registry(items')
  BY <1>3 DEF IInv, Registry
<1>6. OwnersExist'
  BY <1>3 DEF IInv, EntriesOK, OwnersExist
<1>7. Graveyard'
  BY <1>3 DEF IInv, Graveyard
<1>8. AllTraceable'
  BY <1>1, <1>3 DEF IInv, AllTraceable, Mine, Traceable, CurrentPrefix
<1>9. OneIdPerThing'
  <2>1. ASSUME NEW i \in items, i.entry = e, e \notin halted PROVE i.thing # thing
    <3>1. i.prefix = CurrentPrefix(e)
      BY <2>1 DEF IInv, AllTraceable, Mine, Traceable
    <3> QED
      BY <2>1, <3>1 DEF Known, Mine
  <2>2. \A i, j \in held : i = j
    BY DEF IInv, Registry
  <2> QED
    BY <1>3, <2>1, <2>2 DEF IInv, OneIdPerThing
<1> QED
  BY <1>4, <1>5, <1>6, <1>7, <1>8, <1>9 DEF IInv, Registry

LEMMA DiscoverInv ==
  ASSUME IInv, NEW e \in Entries, NEW thing \in 1 .. Things, Discover(e, thing)
  PROVE  IInv'
<1> DEFINE held == {i \in items : i.prefix = CurrentPrefix(e) /\ i.thing = thing}
           gone == {d \in deleted : d.prefix = CurrentPrefix(e) /\ d.thing = thing}
<1>1. /\ state[e] = "running" /\ thing \notin Known(e)
      /\ deleted' = deleted \ gone /\ UNCHANGED <<entry, state, form, flows, halted>>
  BY DEF Discover
<1>2. CASE held # {} /\ items' = (items \ held) \cup {[i EXCEPT !.entry = e] : i \in held}
  BY <1>1, <1>2, TakeoverInv
<1>3. CASE held = {} /\ gone # {} /\ items' = items \cup {Item(d.id, e, thing) : d \in gone}
  <2>1. PICK d \in gone : TRUE
    BY <1>3
  <2>2. gone = {d}
    BY DEF IInv, Graveyard
  <2>3. d.id \in Ids /\ (\A i \in items : i.id # d.id) /\ \A c \in deleted' : c.id # d.id
    BY <1>1, <2>2 DEF IInv, Graveyard, DeletedRecord
  <2>4. items' = items \cup {Item(d.id, e, thing)}
    BY <1>3, <2>2
  <2>5. \A i \in items : ~(i.prefix = CurrentPrefix(e) /\ i.thing = thing)
    BY <1>3
  <2>6. deleted' \subseteq deleted
    BY <1>1
  <2> HIDE DEF held, gone
  <2> QED
    BY <1>1, <2>3, <2>4, <2>5, <2>6, AdditionInv
<1>4. CASE held = {} /\ Unused # {} /\ items' = items \cup {Item(Min(Unused), e, thing)}
  <2>1. Min(Unused) \in Unused
    BY <1>4, IdentityAssumption, MinIsLeast DEF Unused
  <2>2. /\ Min(Unused) \in Ids /\ \A i \in items : i.id # Min(Unused)
        /\ \A d \in deleted' : d.id # Min(Unused)
    BY <1>1, <2>1 DEF Unused
  <2>3. deleted' \subseteq deleted
    BY <1>1
  <2>4. \A i \in items : ~(i.prefix = CurrentPrefix(e) /\ i.thing = thing)
    BY <1>4
  <2> HIDE DEF held, gone
  <2> QED
    BY <1>1, <1>4, <2>2, <2>3, <2>4, AdditionInv
<1> QED
  BY <1>2, <1>3, <1>4 DEF Discover

LEMMA RemoveInv ==
  ASSUME IInv, NEW e \in Entries, Remove(e)
  PROVE  IInv'
<1> DEFINE Left(i) == [id |-> i.id, thing |-> i.thing, prefix |-> i.prefix,
                       broker |-> IF state[e] = "running" /\ e \notin halted
                                  THEN entry[e].broker ELSE NoBroker]
           left == {Left(i) : i \in Mine(e)}
<1>1. /\ entry' = [entry EXCEPT ![e] = Absent] /\ state' = [state EXCEPT ![e] = "none"]
      /\ items' = items \ Mine(e) /\ halted' = halted \ {e} /\ UNCHANGED flows
      /\ form' = [form EXCEPT ![e] = NoBroker]
      /\ deleted' = left \cup {d \in deleted : \A l \in left :
                                 l.prefix # d.prefix \/ l.thing # d.thing}
  BY DEF Remove
<1>2. Absent \in EntryRecord /\ ~Absent.exists /\ Absent.stack_id \notin Tokens
  BY PrefixesDiffer DEF Absent, EntryRecord, Tokens, stack_id_from_broker
<1>3. EntriesOK'
  BY <1>1, <1>2 DEF IInv, EntriesOK, States, Existing
<1>4. SetUp'
  BY <1>1, <1>2 DEF IInv, EntriesOK, SetUp, CurrentPrefix
<1>5. \A i \in items' : i \in items /\ i.entry # e
  BY <1>1 DEF Mine
<1>6. Registry(items') /\ OneIdPerThing'
  BY <1>1, <1>5 DEF IInv, Registry, OneIdPerThing
<1>7. OwnersExist'
  BY <1>1, <1>5 DEF IInv, EntriesOK, Registry, ItemRecord, OwnersExist
<1>8. AllTraceable'
  BY <1>1, <1>5 DEF IInv, EntriesOK, Registry, ItemRecord, AllTraceable, Mine, Traceable,
                    CurrentPrefix
<1>9. Graveyard'
  <2>1. \A i \in Mine(e) :
          /\ i \in items /\ Left(i) \in DeletedRecord
          /\ Left(i).id = i.id /\ Left(i).thing = i.thing /\ Left(i).prefix = i.prefix
          /\ Left(i).broker \in Brokers => i.prefix = stack_id_from_broker(Left(i).broker)
    <3> SUFFICES ASSUME NEW i \in Mine(e)
                 PROVE  /\ i \in items /\ Left(i) \in DeletedRecord
                        /\ Left(i).broker \in Brokers
                             => i.prefix = stack_id_from_broker(Left(i).broker)
      OBVIOUS
    <3>1. i \in items /\ Left(i) \in DeletedRecord
      BY DEF IInv, EntriesOK, EntryRecord, Registry, ItemRecord, DeletedRecord, Mine
    <3>2. ASSUME Left(i).broker \in Brokers
          PROVE  i.prefix = stack_id_from_broker(Left(i).broker)
      <4>1. state[e] = "running" /\ e \notin halted
        BY <3>2, IdentityAssumption
      <4>2. i.prefix = CurrentPrefix(e)
        BY <4>1 DEF IInv, AllTraceable, Traceable
      <4> QED
        BY <4>1, <4>2 DEF CurrentPrefix
    <3> QED
      BY <3>1, <3>2
  <2>2. \A l \in left : \E i \in Mine(e) : l = Left(i)
    OBVIOUS
  <2>3. \A d \in deleted' : d \in left \/ d \in deleted
    BY <1>1
  <2> HIDE DEF Left
  <2>4. deleted' \subseteq DeletedRecord
    BY <2>1, <2>2, <2>3 DEF IInv, Graveyard
  <2>5. \A d \in deleted' : d.broker \in Brokers => d.prefix = stack_id_from_broker(d.broker)
    BY <2>1, <2>2, <2>3 DEF IInv, Graveyard
  <2>6. \A i \in items', d \in deleted' : i.id # d.id
    BY <1>5, <2>1, <2>2, <2>3 DEF IInv, Graveyard, Registry, Mine
  <2>7. ASSUME NEW d \in deleted', NEW c \in deleted',
               d.id = c.id \/ (d.prefix = c.prefix /\ d.thing = c.thing)
        PROVE  d = c
    <3>1. CASE d \in left /\ c \in left
      BY <2>1, <2>2, <2>7, <3>1 DEF IInv, Registry
    <3>2. CASE d \in left /\ c \notin left
      BY <1>1, <2>1, <2>2, <2>3, <2>7, <3>2 DEF IInv, Graveyard
    <3>3. CASE d \notin left /\ c \in left
      BY <1>1, <2>1, <2>2, <2>3, <2>7, <3>3 DEF IInv, Graveyard
    <3>4. CASE d \notin left /\ c \notin left
      BY <2>3, <2>7, <3>4 DEF IInv, Graveyard
    <3> QED
      BY <3>1, <3>2, <3>3, <3>4
  <2> QED
    BY <2>4, <2>5, <2>6, <2>7 DEF Graveyard
<1> QED
  BY <1>3, <1>4, <1>6, <1>7, <1>8, <1>9 DEF IInv, Registry

-----------------------------------------------------------------------------

LEMMA NextInv == IInv /\ [Next]_vars => IInv'
  BY SubmitInv, ShowAgainInv, CreateEntryInv, ReconfigureInv, SetupRefusedInv, MigrationFailsInv, SetupInv,
     DiscoverInv, RemoveInv, RestartInv, StutterInv DEF Next

LEMMA Invariance == Spec => []IInv
  BY InitInv, NextInv, PTL DEF Spec

(***************************************************************************)
(* Every variable keeps its type, and every item has an owner that exists. *)
(***************************************************************************)
THEOREM TypeCorrect == Spec => []TypeOK
<1>1. IInv => TypeOK
  BY DEF IInv, EntriesOK, EntryRecord, States, Registry, ItemRecord, OwnersExist,
         Tokens, TypeOK
<1> QED
  BY <1>1, Invariance, PTL

(***************************************************************************)
(* An entry that runs, none of whose migrations stopped half-way, has all  *)
(* its entities under its current prefix, however it got there             *)
(* (_migrate_registry_identity).                                           *)
(***************************************************************************)
THEOREM NothingIsLeftBehind == Spec => []NoneLeftBehind
<1>1. IInv => NoneLeftBehind
  BY DEF IInv, AllTraceable, Traceable, NoneLeftBehind
<1> QED
  BY <1>1, Invariance, PTL

(***************************************************************************)
(* Nor does it ever have two registry ids for one thing: no entity is made *)
(* anew beside its history.                                                *)
(***************************************************************************)
THEOREM HistoryIsKept == Spec => []OneIdPerThing
  BY Invariance, PTL DEF IInv

(***************************************************************************)
(* No step of any entry takes what another entry, alone on its broker, has *)
(* migrated.                                                               *)
(***************************************************************************)
THEOREM MigratedIsKept == Spec => MigratedIsOwn
<1>1. IInv /\ [Next]_vars =>
        [\A i \in items :
           /\ Distinct /\ entry[i.entry].broker # NoBroker
           /\ i.prefix = CurrentPrefix(i.entry)
           /\ entry'[i.entry].exists
           => \E j \in items' : j.id = i.id /\ j.entry = i.entry /\ j.thing = i.thing]_vars
  <2> SUFFICES ASSUME IInv, Next, NEW i \in items, Distinct,
                      entry[i.entry].broker # NoBroker,
                      i.prefix = CurrentPrefix(i.entry), entry'[i.entry].exists
               PROVE  i \in items'
    OBVIOUS
  <2>1. \A e \in Entries : i \notin Outdated(e)
    BY DEF Outdated, OldPrefixes, Mine
  <2>2. ASSUME NEW e \in Entries, Setup(e) \/ MigrationFails(e) PROVE i \in items'
    BY <2>1, <2>2 DEF Setup, MigrationFails, Renamed
  <2>3. ASSUME NEW e \in Entries, Remove(e) PROVE i \in items'
    BY <2>3 DEF Remove, Mine, Absent, IInv, EntriesOK
  <2>4. ASSUME NEW e \in Entries, NEW thing \in 1 .. Things, Discover(e, thing)
        PROVE  i \in items'
    <3>1. ASSUME i.prefix = CurrentPrefix(e), i.thing = thing PROVE FALSE
      <4>1. i.entry \in Existing /\ e \in Existing
        BY <2>4 DEF Discover, IInv, EntriesOK, OwnersExist, Registry, ItemRecord, Existing
      <4>2. entry[i.entry].broker = entry[e].broker
        BY <3>1, PrefixesDiffer DEF CurrentPrefix, stack_id_from_broker
      <4>3. i \in Mine(e)
        BY <4>1, <4>2 DEF Distinct, Mine
      <4> QED
        BY <2>4, <3>1, <4>3 DEF Discover, Known
    <3>2. i \notin {k \in items : k.prefix = CurrentPrefix(e) /\ k.thing = thing}
      BY <3>1
    <3> QED
      BY <2>4, <3>2 DEF Discover
  <2> QED
    BY <2>2, <2>3, <2>4
       DEF Next, vars, Submit, ShowAgain, CreateEntry, Reconfigure, SetupRefused, Restart
<1> QED
  BY <1>1, Invariance, PTL DEF MigratedIsOwn, Spec

(***************************************************************************)
(* Added again with the broker settings it was running with, an            *)
(* integration gets back every entity it had (stack_id_from_broker).       *)
(***************************************************************************)
THEOREM ReinstallRestores == Spec => ReinstallKeepsIdentity
<1>1. IInv /\ [Next]_vars =>
        [\A i \in items' : i.id \notin {j.id : j \in items} =>
           \A d \in deleted :
             d.broker = entry[i.entry].broker /\ d.thing = i.thing => i.id = d.id]_vars
  <2> DEFINE Restored(i) ==
        \A d \in deleted :
          d.broker = entry[i.entry].broker /\ d.thing = i.thing => i.id = d.id
  <2> SUFFICES ASSUME IInv, Next, NEW i \in items', i.id \notin {j.id : j \in items}
               PROVE  Restored(i)
    BY DEF vars
  <2>1. i \notin items
    OBVIOUS
  <2>2. ASSUME NEW e \in Entries, NEW some \in SUBSET Outdated(e),
               items' = Renamed(e, some)
        PROVE  FALSE
    <3>1. PICK j \in some : i = [j EXCEPT !.prefix = CurrentPrefix(e)]
      BY <2>1, <2>2 DEF Renamed
    <3>2. j \in items /\ j \in ItemRecord
      BY DEF Outdated, Mine, IInv, Registry
    <3>3. i.id = j.id
      BY <3>1, <3>2 DEF ItemRecord
    <3> QED
      BY <3>2, <3>3
  <2>3. ASSUME NEW e \in Entries, Setup(e) \/ MigrationFails(e) PROVE FALSE
    BY <2>2, <2>3 DEF Setup, MigrationFails
  <2>4. ASSUME NEW e \in Entries, NEW thing \in 1 .. Things, Discover(e, thing)
        PROVE  Restored(i)
    <3> DEFINE held == {k \in items : k.prefix = CurrentPrefix(e) /\ k.thing = thing}
               gone == {d \in deleted : d.prefix = CurrentPrefix(e) /\ d.thing = thing}
    <3>1. entry[e].broker \in Brokers
      BY <2>4 DEF Discover, IInv, SetUp
    <3>2. \A j \in held : [j EXCEPT !.entry = e].id = j.id /\ j \in items
      BY DEF IInv, Registry, ItemRecord
    <3>3. items' # (items \ held) \cup {[j EXCEPT !.entry = e] : j \in held}
      <4> SUFFICES ASSUME items' = (items \ held) \cup {[j EXCEPT !.entry = e] : j \in held}
                   PROVE  FALSE
        OBVIOUS
      <4>1. PICK j \in held : i = [j EXCEPT !.entry = e]
        BY <2>1
      <4> QED
        BY <3>2, <4>1
    <3>4. PICK id : /\ i = Item(id, e, thing)
                    /\ gone # {} => \E d \in gone : id = d.id
      BY <2>1, <2>4, <3>3 DEF Discover
    <3>5. i.id = id /\ i.entry = e /\ i.thing = thing
      BY <3>4 DEF Item
    <3>6. ASSUME NEW d \in deleted, d.broker = entry[e].broker, d.thing = thing
          PROVE  d \in gone
      BY <3>1, <3>6 DEF IInv, Graveyard, CurrentPrefix
    <3>7. \A d, c \in gone : d = c
      BY DEF IInv, Graveyard
    <3> HIDE DEF gone, held
    <3> QED
      BY <3>4, <3>5, <3>6, <3>7
  <2> QED
    BY <2>1, <2>3, <2>4
       DEF Next, vars, Submit, ShowAgain, CreateEntry, Reconfigure, SetupRefused, Remove, Restart
<1> QED
  BY <1>1, Invariance, PTL DEF ReinstallKeepsIdentity, Spec

(***************************************************************************)
(* However long the forms of two entries wait for their connection tests:  *)
(* the one accepted later is compared with what the other has become       *)
(* (async_step_user, async_step_reconfigure), so that only an entry of an  *)
(* earlier version is ever joined on its broker.                           *)
(***************************************************************************)
THEOREM BrokersAreApart == Spec => []OneEntryPerBroker
<1>1. Init => OneEntryPerBroker
  BY DEF Init, OneEntryPerBroker, Existing, Absent, LegacyEntries, Legacy
<1>2. IInv /\ OneEntryPerBroker /\ [Next]_vars => OneEntryPerBroker'
  <2> SUFFICES ASSUME IInv, OneEntryPerBroker, [Next]_vars,
                      NEW e \in Entries, NEW f \in Entries, e # f,
                      entry'[e].exists, entry'[f].exists,
                      entry'[e].broker = entry'[f].broker
               PROVE  \E g \in {e, f} : entry'[g].unique_id # entry'[g].broker
    BY DEF OneEntryPerBroker, Existing
  <2>1. entry \in [Entries -> EntryRecord]
    BY DEF IInv, EntriesOK
  <2>2. ASSUME \A g \in {e, f} : /\ entry[g].exists
                                 /\ entry'[g].broker = entry[g].broker
                                 /\ entry'[g].unique_id = entry[g].unique_id
        PROVE  \E g \in {e, f} : entry'[g].unique_id # entry'[g].broker
    BY <2>2 DEF OneEntryPerBroker, Existing
  <2>3. ASSUME NEW g \in Entries, NEW b \in Brokers, CreateEntry(g, b)
        PROVE  \E h \in {e, f} : entry'[h].unique_id # entry'[h].broker
    <3>1. entry' = [entry EXCEPT ![g] = [exists |-> TRUE, broker |-> b,
                                         stack_id |-> NoPrefix, unique_id |-> b]]
      BY <2>3 DEF CreateEntry
    <3>2. CASE g \in {e, f}
      <4>1. PICK h \in {e, f} : h # g
        BY <3>2
      <4>2. entry'[h] = entry[h] /\ entry'[g].broker = b
        BY <2>1, <3>1, <4>1
      <4>3. entry[h].broker = b /\ entry[h].exists
        BY <3>2, <4>1, <4>2
      <4>4. entry[h].unique_id # b
        BY <2>3, <4>3 DEF CreateEntry, Existing
      <4> QED BY <4>2, <4>3, <4>4
    <3>3. CASE g \notin {e, f}
      BY <2>1, <2>2, <3>1, <3>3
    <3> QED BY <3>2, <3>3
  <2>4. ASSUME NEW g \in Entries, NEW b \in Brokers, Reconfigure(g, b)
        PROVE  \E h \in {e, f} : entry'[h].unique_id # entry'[h].broker
    <3>1. entry' = [entry EXCEPT ![g] = Merged(g, b)] /\ Free(g, b)
      BY <2>4 DEF Reconfigure
    <3>2. CASE g \in {e, f}
      <4>1. PICK h \in {e, f} : h # g
        BY <3>2
      <4>2. entry'[h] = entry[h] /\ entry'[g].broker = b
        BY <2>1, <3>1, <4>1 DEF Merged, EntryRecord
      <4>3. entry[h].broker = b /\ entry[h].exists
        BY <3>2, <4>1, <4>2
      <4> QED BY <3>1, <4>1, <4>3 DEF Free, Existing
    <3>3. CASE g \notin {e, f}
      BY <2>1, <2>2, <3>1, <3>3
    <3> QED BY <3>2, <3>3
  <2>5. ASSUME NEW g \in Entries, Setup(g)
        PROVE  \E h \in {e, f} : entry'[h].unique_id # entry'[h].broker
    BY <2>1, <2>2, <2>5 DEF Setup, EntryRecord
  <2>6. ASSUME NEW g \in Entries, Remove(g)
        PROVE  \E h \in {e, f} : entry'[h].unique_id # entry'[h].broker
    <3>1. entry' = [entry EXCEPT ![g] = Absent]
      BY <2>6 DEF Remove
    <3>2. g \notin {e, f}
      BY <2>1, <3>1 DEF Absent
    <3> QED BY <2>1, <2>2, <3>1, <3>2
  <2>7. ASSUME UNCHANGED entry
        PROVE  \E h \in {e, f} : entry'[h].unique_id # entry'[h].broker
    BY <2>2, <2>7
  <2> QED
    BY <2>3, <2>4, <2>5, <2>6, <2>7
       DEF Next, Submit, ShowAgain, SetupRefused, MigrationFails, Discover, Restart, vars
<1> QED
  BY <1>1, <1>2, Invariance, PTL DEF Spec
=============================================================================
