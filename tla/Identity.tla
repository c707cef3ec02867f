------------------------------ MODULE Identity ------------------------------
(***************************************************************************)
(* The identity of entities and devices in Home Assistant's registry over  *)
(* the life of config entries: created by the user step, moved to another  *)
(* broker by the reconfigure step, migrated at every setup                 *)
(* (_migrate_registry_identity, custom_components/pylontech_mqtt/          *)
(* __init__.py), removed and added again, over restarts.                   *)
(*                                                                         *)
(* A registry identifier is a prefix and a thing ("_system", "_bat1_soc"): *)
(* the prefix is the scheme it was made by and what it was made of.  Host, *)
(* port and topic together are a broker; a sha256 of them never collides   *)
(* with another, nor with an entry id or a topic.  Things are a stack's    *)
(* devices and entities; they are renamed in the order they were made.     *)
(***************************************************************************)
EXTENDS Naturals, FiniteSets, FiniteSetsExt

CONSTANTS
  Entries,     \* config entry ids
  Brokers,     \* host, port and topic
  NoBroker,    \* an entry of the time before MQTT
  TopicOf,     \* the topic of each broker, up to "/" against "_"
  Things,      \* the entities of a stack are 1 .. Things; 1 is made first
  Ids,         \* registry ids: bounds the entities ever made
  MaxFlows     \* bounds the uses of the config flow

ASSUME IdentityAssumption ==
  /\ NoBroker \notin Brokers
  /\ Brokers \subseteq DOMAIN TopicOf
  /\ Things \in Nat \ {0} /\ Ids \subseteq Nat /\ Ids # {} /\ MaxFlows \in Nat

VARIABLES
  entry,     \* of each entry: exists, broker, _stack_id and HA's unique id
  state,     \* "none", "pending" (to be set up), "running", "failed" (setup
             \* raised), "stuck" (could not be unloaded)
  items,     \* the registry: id, entry, thing, prefix
  deleted,   \* what the registry keeps of removed entries
  form,      \* of each entry, or of one to be made: the broker submitted in the
             \* config flow and being tried, NoBroker when there is none
  flows,     \* forms submitted
  halted     \* history: the entries a migration of which stopped half-way

vars == <<entry, state, items, deleted, form, flows, halted>>

Prefix(scheme, of) == [scheme |-> scheme, of |-> of]
NoPrefix == Prefix("none", NoBroker)

stack_id_from_topic(broker)  == Prefix("topic", TopicOf[broker])
stack_id_from_broker(broker) == Prefix("broker", broker)

Absent == [exists |-> FALSE, broker |-> NoBroker, stack_id |-> NoPrefix,
           unique_id |-> NoBroker]

Existing == {e \in Entries : entry[e].exists}

Mine(e) == {i \in items : i.entry = e}

Unused == Ids \ {i.id : i \in items \cup deleted}

TypeOK ==
  /\ \A e \in Entries :
       /\ entry[e].broker \in Brokers \cup {NoBroker}
       /\ entry[e].unique_id \in Brokers \cup {NoBroker}
       /\ entry[e].stack_id \in {NoPrefix} \cup {stack_id_from_broker(b) : b \in Brokers}
       /\ state[e] \in {"none", "pending", "running", "failed", "stuck"}
       /\ entry[e].exists <=> state[e] # "none"
  /\ \A i \in items :
       /\ i.id \in Ids /\ i.thing \in 1 .. Things
       /\ entry[i.entry].exists
  /\ \A i, j \in items : i.id = j.id => i = j
  /\ form \in [Entries -> Brokers \cup {NoBroker}]
  /\ flows \in 0 .. MaxFlows /\ halted \subseteq Existing

-----------------------------------------------------------------------------
(***************************************************************************)
(* Entries made by earlier versions hold identifiers of an earlier scheme. *)
(***************************************************************************)
Legacy(e, broker, prefix, unique_id) ==
  [made  |-> [exists |-> TRUE, broker |-> broker, stack_id |-> NoPrefix,
              unique_id |-> unique_id],
   items |-> {[id |-> Min(Ids), entry |-> e, thing |-> 1, prefix |-> prefix]}]

LegacyEntries(e) ==
  {Legacy(e, b, Prefix("entry", e), u) :
     b \in Brokers, u \in Brokers \cup {NoBroker}}
  \cup {Legacy(e, b, stack_id_from_topic(b), b) : b \in Brokers}
  \cup {Legacy(e, NoBroker, Prefix("entry", e), NoBroker)}

Init ==
  /\ \/ /\ entry = [e \in Entries |-> Absent]
        /\ state = [e \in Entries |-> "none"]
        /\ items = {}
     \/ \E e \in Entries : \E old \in LegacyEntries(e) :
          /\ entry = [f \in Entries |-> IF f = e THEN old.made ELSE Absent]
          /\ state = [f \in Entries |-> IF f = e THEN "pending" ELSE "none"]
          /\ items = old.items
  /\ deleted = {} /\ flows = 0 /\ halted = {}
  /\ form = [e \in Entries |-> NoBroker]

(***************************************************************************)
(* The config flow.                                                        *)
(***************************************************************************)

\* A form is submitted: the user step's or, of an entry, the reconfigure step's.
\* Others may be, and anything may happen to the entries, while a thread of the
\* executor tries the broker.
Submit(e, b) ==
  /\ form[e] = NoBroker /\ form' = [form EXCEPT ![e] = b]
  /\ flows < MaxFlows /\ flows' = flows + 1
  /\ UNCHANGED <<entry, state, items, deleted, halted>>

\* Its topic is not one, or the broker refuses, fails or is too slow; or the
\* step finds the broker taken: the form is shown again.
ShowAgain(e) ==
  /\ form[e] # NoBroker /\ form' = [form EXCEPT ![e] = NoBroker]
  /\ UNCHANGED <<entry, state, items, deleted, flows, halted>>

\* The broker was reached.
Accepted(e, b) ==
  /\ form[e] = b /\ form' = [form EXCEPT ![e] = NoBroker]
  /\ UNCHANGED flows

\* A fault variant: the unique id was compared before the broker was tried.
CreateWithoutCheck(e, b) ==
  /\ ~entry[e].exists
  /\ Accepted(e, b)
  /\ entry' = [entry EXCEPT ![e] = [exists |-> TRUE, broker |-> b,
                                    stack_id |-> NoPrefix, unique_id |-> b]]
  /\ state' = [state EXCEPT ![e] = "pending"]
  /\ UNCHANGED <<items, deleted, halted>>

\* async_step_user, which looks at unique ids and not at brokers.
CreateEntry(e, b) ==
  /\ ~entry[e].exists
  /\ Accepted(e, b)
  /\ \A f \in Existing : entry[f].unique_id # b
  /\ entry' = [entry EXCEPT ![e] = [exists |-> TRUE, broker |-> b,
                                    stack_id |-> NoPrefix, unique_id |-> b]]
  /\ state' = [state EXCEPT ![e] = "pending"]
  /\ UNCHANGED <<items, deleted, halted>>

Free(e, b) ==
  \A f \in Existing \ {e} : entry[f].unique_id # b /\ entry[f].broker # b

\* A fault variant: the form's data replaces everything.
Replaced(e, b) ==
  [exists |-> TRUE, broker |-> b, stack_id |-> NoPrefix, unique_id |-> b]

Merged(e, b) ==
  [entry[e] EXCEPT !.broker = b, !.unique_id = b]

\* async_step_reconfigure; the entry is unloaded, if it can be, to be set up again.
Reconfigure(e, b) ==
  /\ state[e] \in {"running", "failed", "stuck"}
  /\ Accepted(e, b) /\ Free(e, b)
  /\ entry' = [entry EXCEPT ![e] = Merged(e, b)]
  /\ \E after \in {"pending", "stuck"} :
       /\ state[e] = "failed" => after = "pending"
       /\ state[e] = "stuck" => after = "stuck"
       /\ state' = [state EXCEPT ![e] = after]
  /\ UNCHANGED <<items, deleted, halted>>

(***************************************************************************)
(* async_setup_entry.                                                      *)
(***************************************************************************)

\* Two fault variants: entities named after the config entry, or after the
\* topic alone.
EntryIdPrefix(e) == Prefix("entry", e)

TopicPrefix(e) == stack_id_from_topic(entry[e].broker)

CurrentPrefix(e) == stack_id_from_broker(entry[e].broker)

\* A fault variant: the scheme before this one is forgotten.
WithoutTopicScheme(e) ==
  {Prefix("entry", e), entry[e].stack_id} \ {CurrentPrefix(e), NoPrefix}

OldPrefixes(e) ==
  {Prefix("entry", e), stack_id_from_topic(entry[e].broker), entry[e].stack_id}
    \ {CurrentPrefix(e), NoPrefix}

Outdated(e) == {i \in Mine(e) : i.prefix \in OldPrefixes(e)}

\* The renames the registry refuses, in the order of the ids: the identifier
\* exists, or an earlier rename has made it.
Refused(e) ==
  {i \in Outdated(e) :
     \E j \in items \ {i} :
       /\ j.thing = i.thing
       /\ j.prefix = CurrentPrefix(e) \/ (j \in Outdated(e) /\ j.id < i.id)}

Renamed(e, some) ==
  (items \ some) \cup {[i EXCEPT !.prefix = CurrentPrefix(e)] : i \in some}

\* No broker: nothing is migrated, and setup returns False.
SetupRefused(e) ==
  /\ state[e] = "pending" /\ entry[e].broker = NoBroker
  /\ state' = [state EXCEPT ![e] = "failed"]
  /\ UNCHANGED <<entry, items, deleted, form, flows, halted>>

\* A rename raises: those before it are done, _stack_id is not written.
MigrationFails(e) ==
  /\ state[e] = "pending" /\ entry[e].broker # NoBroker
  /\ Refused(e) # {}
  /\ LET first == Min({i.id : i \in Refused(e)})
     IN  items' = Renamed(e, {i \in Outdated(e) : i.id < first})
  /\ state' = [state EXCEPT ![e] = "failed"]
  /\ halted' = halted \cup {e}
  /\ UNCHANGED <<entry, deleted, form, flows>>

Setup(e) ==
  /\ state[e] = "pending" /\ entry[e].broker # NoBroker
  /\ Refused(e) = {}
  /\ items' = Renamed(e, Outdated(e))
  /\ entry' = [entry EXCEPT ![e].stack_id = CurrentPrefix(e)]
  /\ state' = [state EXCEPT ![e] = "running"]
  /\ UNCHANGED <<deleted, form, flows, halted>>

(***************************************************************************)
(* A thing is discovered (discover_new_ids).  The registry gives an        *)
(* identifier that exists to the entry that asks (if its entity is live it *)
(* does nothing), restores one of a removed entry, or makes a new one.     *)
(***************************************************************************)
Known(e) == {i.thing : i \in {j \in Mine(e) : j.prefix = CurrentPrefix(e)}}

Item(id, e, thing) ==
  [id |-> id, entry |-> e, thing |-> thing, prefix |-> CurrentPrefix(e)]

Discover(e, thing) ==
  /\ state[e] = "running"
  /\ thing \notin Known(e) /\ 1 .. thing - 1 \subseteq Known(e)
  /\ LET held == {i \in items : i.prefix = CurrentPrefix(e) /\ i.thing = thing}
         gone == {d \in deleted : d.prefix = CurrentPrefix(e) /\ d.thing = thing}
     IN  /\ \/ /\ held # {}
               /\ items' = (items \ held) \cup {[i EXCEPT !.entry = e] : i \in held}
            \/ /\ held = {} /\ gone # {}
               /\ items' = items \cup {Item(d.id, e, thing) : d \in gone}
            \/ /\ held = {} /\ gone = {} /\ Unused # {}
               /\ items' = items \cup {Item(Min(Unused), e, thing)}
         /\ deleted' = deleted \ gone
  /\ UNCHANGED <<entry, state, form, flows, halted>>

\* Of a removed entry the registry keeps the identifiers; Home Assistant gives
\* up its reconfigure form.
Remove(e) ==
  LET left == {[id |-> i.id, thing |-> i.thing, prefix |-> i.prefix,
                broker |-> IF state[e] = "running" /\ e \notin halted
                           THEN entry[e].broker ELSE NoBroker] : i \in Mine(e)}
  IN  /\ entry[e].exists
      /\ entry' = [entry EXCEPT ![e] = Absent]
      /\ state' = [state EXCEPT ![e] = "none"]
      /\ items' = items \ Mine(e)
      /\ deleted' = left \cup {d \in deleted : \A l \in left :
                                 l.prefix # d.prefix \/ l.thing # d.thing}
      /\ halted' = halted \ {e}
      /\ form' = [form EXCEPT ![e] = NoBroker]
      /\ UNCHANGED flows

\* Home Assistant starts again, without the forms.
Restart ==
  /\ state' = [e \in Entries |-> IF entry[e].exists THEN "pending" ELSE "none"]
  /\ form' = [e \in Entries |-> NoBroker]
  /\ UNCHANGED <<entry, items, deleted, flows, halted>>

Next ==
  \/ \E e \in Entries, b \in Brokers :
       Submit(e, b) \/ CreateEntry(e, b) \/ Reconfigure(e, b)
  \/ \E e \in Entries :
       ShowAgain(e) \/ SetupRefused(e) \/ MigrationFails(e) \/ Setup(e) \/ Remove(e)
  \/ \E e \in Entries, thing \in 1 .. Things : Discover(e, thing)
  \/ Restart

Spec == Init /\ [][Next]_vars

-----------------------------------------------------------------------------

(***************************************************************************)
(* Whatever scheme and however many brokers an entry has gone through:     *)
(* once it is set up, no entity of its is left under another prefix, to be *)
(* shadowed by a new one (_migrate_registry_identity, _stack_id).  It does *)
(* not hold for an entry one of whose migrations stopped half-way.         *)
(***************************************************************************)
NoneLeftBehind ==
  \A e \in Entries \ halted : state[e] = "running" =>
    \A i \in Mine(e) : i.prefix = CurrentPrefix(e)

(***************************************************************************)
(* An entity keeps its registry id, its history, while its entry exists:   *)
(* the registry never holds two for the same thing of one entry.           *)
(***************************************************************************)
OneIdPerThing ==
  \A i, j \in items :
    i.entry = j.entry /\ i.thing = j.thing /\ i.entry \notin halted => i = j

(***************************************************************************)
(* However long the forms of both steps wait for their connection tests,   *)
(* and whatever is created, reconfigured or removed meanwhile, two entries *)
(* are on one broker and topic only if one of them is of an earlier        *)
(* version, was not reconfigured since and has a unique id that is not its *)
(* broker: the user step compares unique ids alone.                        *)
(***************************************************************************)
OneEntryPerBroker ==
  \A e, f \in Existing :
    e # f /\ entry[e].broker = entry[f].broker
      => \E g \in {e, f} : entry[g].unique_id # entry[g].broker

Distinct ==
  \A e, f \in Existing : entry[e].broker = entry[f].broker => e = f

(***************************************************************************)
(* What an entry has migrated is its own: while no other entry is on the   *)
(* same broker, no other entry ever takes an entity of its.                *)
(***************************************************************************)
MigratedIsOwn ==
  [][\A i \in items :
       /\ Distinct /\ entry[i.entry].broker # NoBroker
       /\ i.prefix = CurrentPrefix(i.entry)
       /\ entry'[i.entry].exists
       => \E j \in items' : j.id = i.id /\ j.entry = i.entry /\ j.thing = i.thing]_vars

(***************************************************************************)
(* An integration removed and added again with the same broker settings    *)
(* gets its entities back (README.md:29, stack_id_from_broker).            *)
(***************************************************************************)
ReinstallKeepsIdentity ==
  [][\A i \in items' : i.id \notin {j.id : j \in items} =>
       \A d \in deleted :
         d.broker = entry[i.entry].broker /\ d.thing = i.thing => i.id = d.id]_vars
=============================================================================
