----------------------------- MODULE MCReadings -----------------------------
\* Consoles for Readings: the layouts of the firmware the stub imitates, and
\* each with one column inserted, moved or left out.
EXTENDS Readings

Col(label, kind) ==
  [labels |-> <<label>>, kind |-> kind, tokens |-> 1, shown |-> TRUE]

State(label) ==
  [labels |-> <<label, "State">>, kind |-> "word", tokens |-> 1, shown |-> TRUE]

MCTime == [labels |-> <<"Time">>, kind |-> "word", tokens |-> 2, shown |-> TRUE]

MCPwr == <<Col("Power", "int"), Col("Volt", "int"), Col("Curr", "int"),
           Col("Tempr", "int"), Col("Tlow", "int"), Col("Thigh", "int"),
           Col("Vlow", "int"), Col("Vhigh", "int"), Col("Base.St", "word"),
           Col("Volt.St", "word"), Col("Curr.St", "word"), Col("Temp.St", "word"),
           Col("Coulomb", "percent"), MCTime, Col("B.V.St", "word"),
           Col("B.T.St", "word")>>

\* scripts/pylon_stub.py --firmware new
MCPwrNew == SubSeq(MCPwr, 1, 5) \o <<Col("Tlow.Id", "int")>>
            \o <<MCPwr[6], Col("Thigh.Id", "int"), MCPwr[7], Col("Vlow.Id", "int"),
                 MCPwr[8], Col("Vhigh.Id", "int")>>
            \o SubSeq(MCPwr, 9, 16)
            \o <<Col("MosTempr", "int"), Col("M.T.St", "word"), Col("SysAlarm.St", "word")>>

MCBat == <<Col("Battery", "int"), Col("Volt", "int"), Col("Curr", "int"),
           Col("Tempr", "int"), State("Base"), State("Volt."), State("Curr."),
           State("Temp."), Col("SOC", "percent"),
           [Col("Coulomb", "int") EXCEPT !.tokens = 2]>>   \* 42586 mAH

MCBatNoLabel == [MCBat EXCEPT ![9].shown = FALSE]

Swap(s, i) == [s EXCEPT ![i] = s[i + 1], ![i + 1] = s[i]]

MCPwrLayouts ==
  <<MCPwr, MCPwrNew>>
  \o [i \in 1 .. 15 |-> InsertAt(MCPwr, i + 1, Col("Extra", "int"))]
  \o [i \in 1 .. 14 |-> Swap(MCPwr, i + 1)]
  \o [i \in 1 .. 6 |-> RemoveAt(MCPwr, <<5, 8, 10, 14, 15, 16>>[i])]

MCBatLayouts ==
  <<MCBat, MCBatNoLabel, InsertAt(MCBatNoLabel, 5, Col("Extra", "int")), Swap(MCBat, 4)>>

Line(absent, keep, dash, junk) ==
  [absent |-> absent, keep |-> keep, dash |-> dash, junk |-> junk]

MCGood == Line(FALSE, 99, {}, {})

MCPwrStates == {MCGood, Line(TRUE, 99, {}, {}), Line(FALSE, 99, PwrLimits, {}),
                Line(FALSE, 99, {}, {<<"Volt">>}), Line(FALSE, 12, {}, {})}

MCBatStates == {MCGood, Line(FALSE, 99, {}, {<<"Curr">>}), Line(FALSE, 4, {}, {})}

Console(pwr, bat, level, pwrStates, batStates) ==
  [pwr |-> pwr, bat |-> bat, level |-> level,
   pwrStates |-> pwrStates, batStates |-> batStates]

MCConsoles ==
  [i \in DOMAIN MCPwrLayouts |->
     Console(MCPwrLayouts[i], MCBat, "low", MCPwrStates, {MCGood})]
  \o [i \in DOMAIN MCBatLayouts |->
        Console(MCPwr, MCBatLayouts[i], "high",
                {MCGood, Line(FALSE, 99, {}, {<<"Volt">>})}, MCBatStates)]
  \o <<Console(MCPwr, MCBat, "medium", MCPwrStates, {MCGood})>>

Block(known, absent, lost) == [known |-> known, absent |-> absent, lost |-> lost]

MCBlocks == {Block(TRUE, FALSE, {}), Block(FALSE, FALSE, {}), Block(TRUE, TRUE, {}),
             Block(TRUE, FALSE, {"voltage"}), Block(TRUE, FALSE, {"bat_events"})}

\* The hypotheses of the theorems about what a row holds.
ASSUME LayoutsAreOfTheFirmware == PlainConsoles /\ TypedConsoles

=============================================================================
