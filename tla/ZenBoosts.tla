----------------------------- MODULE ZenBoosts -----------------------------
(***************************************************************************)
(* Zen's store of boosts, one per domain as the scripts use it, and what   *)
(* matugen-bridge.uc.js does to it: the universal tint for every open      *)
(* domain and the hue of the wallpaper's accent for every domain it knows. *)
(*                                                                         *)
(* The operators take and return a record with the part of the state one   *)
(* handler works on: `known` and `accent` belong to the window's script    *)
(* (universalBoostedDomains, lastSyncedAccent), and so do the domains it   *)
(* boosted itself, `ours`; `boost` and `gradient` belong to the browser,   *)
(* and outlive the session.  BOOST_SITES is empty in this tree, so the branches for    *)
(* domains with a stylesheet of their own are never taken.                 *)
(***************************************************************************)
EXTENDS Naturals

CONSTANTS
    Own,            \* a hue or CSS the user chose
    Host,           \* the domains the user visits
    Workspaces      \* whether Zen's workspaces are there to take a gradient

ASSUME WorkspacesAssumption == Workspaces \in BOOLEAN

VARIABLES
    boost,          \* the boosts of each domain
    gradient        \* the palette in the active workspace's gradient, 0 at first

DefaultTint == 0

(***************************************************************************)
(* How many boosts the domain has, whether one is active, and the CSS and  *)
(* the hue in it.                                                          *)
(***************************************************************************)
Boost == [made: Nat, active: BOOLEAN, css: {"none", Own}, tint: Nat \union {Own}]

NoBoost == [made |-> 0, active |-> FALSE, css |-> "none", tint |-> DefaultTint]

BoostsTypeOK ==
    /\ boost \in [Host -> Boost]
    /\ gradient \in Nat

(* Mutant: a boost the user turned off is not looked for.                   *)
ActiveOrNew(b) ==
    IF b.active THEN b
    ELSE [NoBoost EXCEPT !.made = b.made + 1, !.active = TRUE]

(***************************************************************************)
(* getOrCreateActiveBoost: the active boost, else the first one of the     *)
(* domain made active, else a new one made active.                         *)
(***************************************************************************)
ActiveBoost(b) ==
    IF b.active THEN b
    ELSE IF b.made > 0 THEN [b EXCEPT !.active = TRUE]
    ELSE [NoBoost EXCEPT !.made = 1, !.active = TRUE]

Tinted(b, v) == [b EXCEPT !.tint = v]

(***************************************************************************)
(* syncWorkspaceTheme: nothing for an accent already synced unless forced; *)
(* the gradient first, then the hue of every known domain's active boost.  *)
(***************************************************************************)
SyncTheme(s, v, force) ==
    LET tinted == {h \in s.known : s.boost[h].active}
    IN  IF v = 0 \/ (~force /\ v = s.accent) THEN s
        ELSE [s EXCEPT
                !.gradient = IF Workspaces THEN v ELSE @,
                !.boost = IF s.manager
                          THEN [h \in Host |-> IF h \in tinted THEN Tinted(@[h], v) ELSE @[h]]
                          ELSE @,
                !.accent = IF s.manager /\ (Workspaces \/ tinted # {}) THEN v ELSE @]

(***************************************************************************)
(* The first half of syncUniversalBoosts: every open domain that is not    *)
(* yet known becomes known; one without a registered boost gets the        *)
(* universal one, without CSS.                                             *)
(***************************************************************************)
Registered(b) == b.active

(* Mutant: Zen's registered boosts are not skipped.                         *)
UnboostedAny(s, open) == open \ s.known

Unboosted(s, open) == {h \in open \ s.known : ~Registered(s.boost[h])}

Universal(b) == [Tinted(ActiveBoost(b), DefaultTint) EXCEPT !.css = "none"]

BoostOpen(s, open) ==
    [s EXCEPT
       !.known = @ \union open,
       !.ours = @ \union Unboosted(s, open),
       !.boost = [h \in Host |-> IF h \in Unboosted(s, open) THEN Universal(@[h]) ELSE @[h]]]

(* Mutant: the hue is not forced after boosts were made.                    *)
SyncUnforced(s, open, v) ==
    IF ~s.manager THEN s ELSE SyncTheme(BoostOpen(s, open), v, FALSE)

SyncUniversal(s, open, v) ==
    IF ~s.manager THEN s
    ELSE LET boosted == BoostOpen(s, open)
         IN  IF boosted.known = {} THEN boosted
             ELSE SyncTheme(boosted, v, Unboosted(s, open) # {} \/ s.accent = 0)

(***************************************************************************)
(* The user makes a boost in Zen's own editor, or turns one off there.     *)
(***************************************************************************)
UserBoosts(h) ==
    /\ boost[h].made = 0
    /\ boost' = [boost EXCEPT ![h] = [made |-> 1, active |-> TRUE,
                                      css |-> Own, tint |-> Own]]
    /\ UNCHANGED gradient

UserTurnsOff(h) ==
    /\ boost[h].active
    /\ boost' = [boost EXCEPT ![h].active = FALSE]
    /\ UNCHANGED gradient

-----------------------------------------------------------------------------

(***************************************************************************)
(* However many windows run the script and whatever the user turns off     *)
(* between two of its rounds, no domain gets a second boost:               *)
(* getOrCreateActiveBoost finds the one that is there.                     *)
(***************************************************************************)
OneBoost == \A h \in Host : boost[h].made <= 1

(***************************************************************************)
(* The CSS of a boost that is active is never taken out: the round that    *)
(* empties customCSS skips registered domains.                             *)
(***************************************************************************)
CssKeeps == \A h \in Host :
    boost[h].active /\ boost[h].css = Own => boost'[h].css = Own

UserCssKept == [][CssKeeps]_boost
=============================================================================
