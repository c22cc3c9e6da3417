------------------------------- MODULE MCZen -------------------------------
(***************************************************************************)
(* Values for the runs of ZenSystem.  Every scenario lets a few outside    *)
(* events of some kinds happen, in every order; a kind it does not name    *)
(* never happens in it.                                                    *)
(***************************************************************************)
EXTENDS ZenSystem

CONSTANTS github, other, q1, q2

SomeShared == [h \in Host |-> IF h = github THEN {q1} ELSE {q1, q2}]

Files == {"bridge", "boosts", "own", "module", "helper"}
Modules == {"module", "helper"}
SameNames == {{"bridge", "boosts"}}
PartOf == {<<"own", "bridge">>}

Scenario(directory, before, some) ==
    [scripts |-> directory,
     written |-> before,
     events |-> [k \in EventKind |-> IF k \in DOMAIN some THEN some[k] ELSE 0]]

BridgeFirst == <<"bridge", "boosts">>
BoostsFirst == <<"boosts", "bridge">>
Everything == <<"own", "bridge", "boosts", "module", "helper">>

Bare == {"global"}
Painted == {"global", "palette"}
Styled == {"global", "github"}

PaletteScenarios ==
    {Scenario(BridgeFirst, Bare, [palette |-> 1, open |-> 2, load |-> 1]),
     Scenario(BridgeFirst, Bare, [palette |-> 1, open |-> 1, load |-> 1, lack |-> 1])}
    \union {Scenario(BridgeFirst, before, [palette |-> 2, open |-> 2, late |-> 1]) :
               before \in {Bare, Painted}}
    \union {Scenario(BoostsFirst, before, [palette |-> 2, open |-> 2, lack |-> 1, late |-> 1]) :
               before \in {Bare, Painted}}
StyleScenarios ==
    {Scenario(BridgeFirst, Bare, [global |-> 1, open |-> 1, load |-> 1, mutate |-> 1, late |-> 1]),
     Scenario(BridgeFirst, Bare, [github |-> 1, open |-> 1, load |-> 2, mutate |-> 1]),
     Scenario(BridgeFirst, Bare, [github |-> 2, open |-> 1, load |-> 1])}
SwitchScenarios ==
    {Scenario(BridgeFirst, Bare, [github |-> 1, web |-> 1, disable |-> 1, open |-> 1, load |-> 1]),
     Scenario(BridgeFirst, Styled,
              [github |-> 1, web |-> 1, open |-> 1, load |-> 1, late |-> 1])}
BoostScenarios ==
    {Scenario(BridgeFirst, Painted, [palette |-> 1, open |-> 1, load |-> 1, user |-> 2]),
     Scenario(BridgeFirst, Painted, [open |-> 2, load |-> 1, user |-> 2])}
SessionScenarios ==
    {Scenario(BridgeFirst, Painted, [open |-> 2, load |-> 1, user |-> 1, restart |-> 1]),
     Scenario(BridgeFirst, Bare, [palette |-> 1, open |-> 2, load |-> 1, restart |-> 1])}
CloseScenarios ==
    {Scenario(BridgeFirst, Bare, [palette |-> 1, open |-> 2, load |-> 1, close |-> 1]),
     Scenario(BridgeFirst, Styled, [github |-> 1, open |-> 2, load |-> 1, close |-> 1]),
     Scenario(Everything, Bare, [open |-> 3, toggle |-> 1, close |-> 1])}
LoaderScenarios ==
    {Scenario(Everything, Bare, [open |-> 2, toggle |-> 2, restart |-> 1])}

TintScenarios ==
    {Scenario(BridgeFirst, Bare, [palette |-> 1, open |-> 2, load |-> 2, restart |-> 1])}

AllScenarios == PaletteScenarios \union StyleScenarios \union SwitchScenarios
                \union BoostScenarios \union SessionScenarios \union CloseScenarios
                \union LoaderScenarios
=============================================================================
