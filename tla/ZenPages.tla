------------------------------ MODULE ZenPages ------------------------------
(***************************************************************************)
(* The content side of the theme: the Matugen actor pair.  MatugenChild    *)
(* runs in every content process, one actor per page and one set of module *)
(* variables per process; MatugenParent answers its query from the files;  *)
(* the bridge sends it variables and styles.  Messages to one process      *)
(* arrive in the order they were sent.                                     *)
(***************************************************************************)
EXTENDS ZenFiles, ZenBoosts, FiniteSets, SequencesExt

CONSTANTS
    Page,           \* tabs, numbered in the order they are opened in
    Themed,         \* the domains HOST_TO_FILE has the stylesheet "github" for
    Process,        \* the content processes
    Home,           \* those a domain's pages may live in
    None

ASSUME HomeAssumption == Home \in [Host -> SUBSET Process]

ASSUME ThemedAssumption == Themed \subseteq Host

ASSUME PageAssumption == IsFiniteSet(Page) /\ Page = 1 .. Cardinality(Page)

VARIABLES
    pref,           \* matugen.theme.* in the parent process
    trail,          \* the prefs as each content process has them, and each
                    \* of the changes that are still on their way to it
    page,           \* the document in each tab
    child,          \* the module variables of MatugenChild in each process
    inbox           \* messages on their way to each process

KeyOrder == <<"bg", "accent">>
Key == Range(KeyOrder)
Colours == [Key -> Nat]
Unset == [k \in Key |-> 0]

(***************************************************************************)
(* A userstyle text is the global one followed by the site's; 0 stands for *)
(* a part that is missing or empty.                                        *)
(***************************************************************************)
Css == [StyleFile -> Nat \union {Half}]
NoCss == [f \in StyleFile |-> 0]

StylesFor(host, global, github) ==
    [f \in StyleFile |-> IF f = "global" THEN global
                         ELSE IF host \in Themed THEN github ELSE 0]

\* settled (history): all of the prefs had arrived when it read them, or it
\* was told of them since.
Document == [host: Host \union {None}, process: Process \union {None},
             served: BOOLEAN, asked: BOOLEAN, settled: BOOLEAN,
             vars: Colours, css: Css]

\* hosts (history): the domains of the pages it has had.
Child == [last: Css, observed: Page \union {None}, timer: Page \union {None},
          hosts: SUBSET Host]

Message == [kind: {"vars"}, page: Page, vars: Colours]
           \union [kind: {"styles", "answer"}, page: Page, css: Css]

PagesTypeOK ==
    /\ pref \in Colours
    /\ \A q \in Process : Range(trail[q]) \subseteq Colours
    /\ page \in [Page -> Document]
    /\ child \in [Process -> Child]
    /\ \A q \in Process : Range(inbox[q]) \subseteq Message

NoDocument == [host |-> None, process |-> None, served |-> FALSE, asked |-> FALSE,
               settled |-> TRUE, vars |-> Unset, css |-> NoCss]
NewProcess == [last |-> NoCss, observed |-> None, timer |-> None, hosts |-> {}]

PagesInit ==
    /\ pref = Unset
    /\ trail = [q \in Process |-> <<Unset>>]
    /\ page = [p \in Page |-> NoDocument]
    /\ child = [q \in Process |-> NewProcess]
    /\ inbox = [q \in Process |-> <<>>]

(***************************************************************************)
(* The prefs are kept in the profile; the processes go.                    *)
(***************************************************************************)
PagesRestart ==
    /\ trail' = [q \in Process |-> <<pref>>]
    /\ page' = [p \in Page |-> NoDocument]
    /\ child' = [q \in Process |-> NewProcess]
    /\ inbox' = [q \in Process |-> <<>>]
    /\ UNCHANGED pref

Shown == {p \in Page : page[p].host # None}
ShownHosts == {page[p].host : p \in Shown}

(***************************************************************************)
(* Messages for several pages, in the order they are sent: casts[i][p] is  *)
(* the sequence of messages the i-th broadcast has for page p.             *)
(***************************************************************************)
Sent(casts) ==
    [q \in Process |-> inbox[q] \o FlattenSeq(
       [i \in DOMAIN casts |-> FlattenSeq(
          [p \in Page |->
             IF p \in Shown /\ page[p].process = q
             THEN casts[i][p] ELSE <<>>])])]

\* The elements of seq that are in S.
Picked(seq, S) ==
    FlattenSeq([i \in DOMAIN seq |-> IF seq[i] \in S THEN <<seq[i]>> ELSE <<>>])

\* Documents go, with the messages to them, the observers and the timers.
InboxWithout(gone) ==
    [q \in Process |-> Picked(inbox[q], {m \in Range(inbox[q]) : m.page \notin gone})]

ChildWithout(gone) ==
    [q \in Process |-> [child[q] EXCEPT !.observed = IF @ \in gone THEN None ELSE @,
                                       !.timer = IF @ \in gone THEN None ELSE @]]

(***************************************************************************)
(* A tab goes to a site.  On DOMContentLoaded an actor that was registered *)
(* in time reads the prefs, which reach the process one after the other,   *)
(* and asks for the styles.                                                *)
(***************************************************************************)
Fresh(host, q, served, n) ==
    [host |-> host, process |-> q, served |-> served, asked |-> served,
     settled |-> served => n = Len(trail[q]),
     vars |-> IF served THEN trail[q][n] ELSE Unset, css |-> NoCss]

Load(p, host, registered) ==
    /\ Spend({"load"})
    /\ \A earlier \in Page : earlier < p => earlier \in Shown
    /\ \E q \in Home[host] :
         /\ \E n \in DOMAIN trail[q] :
              /\ trail' = [trail EXCEPT ![q] = SubSeq(@, n, Len(@))]
              /\ page' = [page EXCEPT ![p] = Fresh(host, q, registered, n)]
         /\ child' = [ChildWithout({p}) EXCEPT ![q].hosts = @ \union {host}]
    /\ inbox' = InboxWithout({p})
    /\ UNCHANGED <<file, pref>>

(***************************************************************************)
(* Tabs go with their window.                                              *)
(***************************************************************************)
Leave(gone) ==
    /\ page' = [p \in Page |-> IF p \in gone THEN NoDocument ELSE page[p]]
    /\ inbox' = InboxWithout(gone)
    /\ child' = ChildWithout(gone)
    /\ UNCHANGED <<pref, trail>>

(***************************************************************************)
(* The parent actor reads the files at once and whatever the switch says.  *)
(***************************************************************************)
ParentStyles(host) == StylesFor(host, file["global"].text, file["github"].text)

Answer(p) ==
    /\ page[p].asked
    /\ page' = [page EXCEPT ![p].asked = FALSE]
    /\ inbox' = [inbox EXCEPT ![page[p].process] =
                   Append(@, [kind |-> "answer", page |-> p,
                              css |-> ParentStyles(page[p].host)])]
    /\ UNCHANGED <<file, left, pref, trail, child>>

WithVars(vars, values) ==
    [k \in Key |-> IF values[k] = 0 THEN vars[k] ELSE values[k]]

Coloured(document, values) ==
    [document EXCEPT !.vars = WithVars(@, values), !.settled = TRUE]

ReceiveVars(q, m) ==
    /\ page' = [page EXCEPT ![m.page] = Coloured(@, m.vars)]
    /\ UNCHANGED child

(* Mutant: only the first styles of a page are remembered.                  *)
ReceiveForgetful(q, m) ==
    IF m.css = NoCss THEN UNCHANGED <<page, child>>
    ELSE /\ page' = [page EXCEPT ![m.page].css = m.css]
         /\ child' = IF m.kind = "styles" THEN child
                     ELSE [child EXCEPT ![q].last = m.css, ![q].observed = m.page]

ReceiveStyles(q, m) ==
    IF m.css = NoCss THEN UNCHANGED <<page, child>>
    ELSE /\ page' = [page EXCEPT ![m.page].css = m.css]
         /\ child' = [child EXCEPT ![q].last = m.css,
                                   ![q].observed = IF m.kind = "answer" THEN m.page ELSE @]

Deliver(q) ==
    /\ inbox[q] # <<>>
    /\ LET m == Head(inbox[q])
       IN  IF m.kind = "vars" THEN ReceiveVars(q, m) ELSE ReceiveStyles(q, m)
    /\ inbox' = [inbox EXCEPT ![q] = Tail(@)]
    /\ UNCHANGED <<file, left, pref, trail>>

(***************************************************************************)
(* The observed document changes: the timer starts anew, for that document.*)
(* When it fires it puts the process's last styles into the document.      *)
(***************************************************************************)
Mutate(q) ==
    /\ child[q].observed # None
    /\ Spend({"mutate"})
    /\ child' = [child EXCEPT ![q].timer = child[q].observed]
    /\ UNCHANGED <<file, pref, trail, page, inbox>>

Fire(q) ==
    /\ child[q].timer # None
    /\ child' = [child EXCEPT ![q].timer = None]
    /\ LET p == child[q].timer
       IN  page' = IF child[q].last # NoCss /\ page[p].css # NoCss
                   THEN [page EXCEPT ![p].css = child[q].last] ELSE page
    /\ UNCHANGED <<file, left, pref, trail, inbox>>

(***************************************************************************)
(* A page's colours are of one palette, unless more of them are on their   *)
(* way: the bridge sends one message per changed pref, and only the last   *)
(* of them is whole.  The exception is a page that read the prefs between  *)
(* two of the changes on their way to its process, until it is told.       *)
(***************************************************************************)
PageWhole == \A p \in Shown :
    page[p].settled /\ (\A m \in Range(inbox[page[p].process]) : m.page # p)
        => \A k, l \in Key : page[p].vars[k] = page[p].vars[l]
=============================================================================
