----------------------------- MODULE MCEntities -----------------------------
(* A small instance of Entities for TLC: two modules, one cell.            *)
EXTENDS Entities, TLC

CONSTANTS u1, u2

MCBatteries == {u1, u2}

Bat(b, cells) == [sys_id |-> b, soc |-> "number", cells |-> cells]

State(read, spec, batteries) ==
  [schema_version |-> 1, read |-> read, lost |-> {}, odd |-> {},
   spec |-> spec, batteries |-> batteries]

\* Any modules, none of which had its cells read.
Bare == {{Bat(b, <<>>) : b \in present} : present \in SUBSET MCBatteries}

\* Any modules, the cells of some of which were read.
Full == UNION {{{Bat(b, IF b \in celled THEN <<1>> ELSE <<>>) : b \in present} :
                  celled \in SUBSET present \ {{}}} : present \in SUBSET MCBatteries}

\* What a sidecar publishes: by the indexed fallback before 'info' was read, at
\* level low with a spec that does not parse, and everything at level high, from
\* a console whose 'stat' has no "Sys SOH".
Published ==
  {State({"pwr", "detail"}, "", s) : s \in Bare} \cup
  {State({"pwr", "table", "info", "stat"}, "US2000", s) : s \in Bare} \cup
  {[State(Commands, "48V/100AH", s) EXCEPT !.lost = {"soh"}] : s \in Full}

\* What others may: another version, {}, a module without its id, and of each
\* module, one without its measurements, with too many cells, with cells of the
\* same id.  Accepted are one without "cells" and with a spec that is a number,
\* and one with a text for the state of health.
Foreign ==
  {[State(Commands, "48V/100AH", {}) EXCEPT !.schema_version = 2],
   State({}, "", {}),
   State(Commands, "48V/100AH", {Bat(Missing, <<>>)}),
   [State(Commands, "US2000", {Bat(b, <<1>>) : b \in MCBatteries})
      EXCEPT !.odd = {"soh"}]} \cup
  UNION {{State(Commands, "48V/100AH", {[Bat(b, <<1>>) EXCEPT !.soc = "null"]}),
          State(Commands, "US2000", {Bat(b, <<1, 1>>)}),
          State(Commands, "US2000", {Bat(b, <<1, 2, 3>>)}),
          State(Commands, NotText, {Bat(b, Missing)})} : b \in MCBatteries}

MCPayloads == Published \cup Foreign

Symmetries == Permutations(MCBatteries)
=============================================================================
