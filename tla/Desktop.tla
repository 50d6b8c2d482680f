------------------------------ MODULE Desktop ------------------------------
(* The window manager's book-keeping (WMState): which client is on which     *)
(* monitor and tags, each monitor's client list and focus stack, what each   *)
(* monitor and each of its tags last selected, and the helpers that every    *)
(* command is made of.  A desktop is a record; a helper maps one desktop to  *)
(* the next, in the order the code applies them.                             *)
(*                                                                           *)
(* A tag mask is a set of tags.  Swallowed windows, scratchpads parked on no *)
(* tag, geometry and the layouts are left out.                               *)
EXTENDS Naturals, Sequences, SequencesExt, FiniteSets

CONSTANTS
    Clients,    \* windows that may be managed
    Docks,      \* the ones that are shell windows: bars, docks, the desktop
    Monitors,   \* outputs that may be plugged in
    TagCount,   \* the configured number of tags
    None

ASSUME DesktopAssumption ==
    /\ Docks \subseteq Clients
    /\ TagCount \in Nat \ {0}
    /\ None \notin Clients \cup Monitors

Tags == 1 .. TagCount

------------------------------------------------------------------------------
(* Reading the desktop *)

Managed(s) == ToSet(s.order)
Present(s) == ToSet(s.mons)
is_locked(s, m) == m \in ToSet(s.locked)

get_selected_client_key(s) == IF s.selmon = None THEN None ELSE s.sel[s.selmon]

\* A client shows on monitor m when it is not minimized and either sticky or
\* on a tag that m views.
is_client_visible_on_monitor(s, c, m) ==
    /\ c \in Managed(s) \ s.hidden
    /\ c \in s.sticky \/ s.tags[c] \cap s.view[m] # {}

is_client_visible_by_key(s, c) ==
    s.mon[c] # None /\ is_client_visible_on_monitor(s, c, s.mon[c])

\* Shell windows are shown and managed but never focused.
Focusable(s) ==
    {c \in Clients \ Docks : is_client_visible_by_key(s, c)}

Position(q, c) == CHOOSE i \in DOMAIN q : q[i] = c

\* The first entry of q that is in good, if any.
First(q, good) ==
    LET hits == {i \in DOMAIN q : q[i] \in good} IN
      IF hits = {} THEN None
      ELSE q[CHOOSE i \in hits : \A j \in hits : i <= j]

find_next_visible_client_by_mon(s, m) ==
    First(s.stack[m], {c \in Clients : is_client_visible_on_monitor(s, c, m)})

\* The most recently focused visible window of the selected monitor; none on a
\* monitor behind a lock shade.
find_visible_client(s) ==
    IF s.selmon = None \/ is_locked(s, s.selmon) THEN None
    ELSE First(s.stack[s.selmon], Focusable(s))

\* The n-th smallest member of S.
Nth(S, n) == CHOOSE e \in S : Cardinality({x \in S : x <= e}) = n

\* The entries of q that are in S, in their order.
Keep(q, S) ==
    LET hits == {i \in DOMAIN q : q[i] \in S}
    IN  [k \in 1 .. Cardinality(hits) |-> q[Nth(hits, k)]]

first_unlocked_monitor(s) == First(s.mons, Monitors \ ToSet(s.locked))

------------------------------------------------------------------------------
(* Client list and focus stack *)

Without(q, c) ==
    IF c \in ToSet(q) THEN RemoveAt(q, Position(q, c)) ELSE q

\* Where the trailing group of floating clients begins.
FirstFloating(s, q) ==
    LET f == First(q, s.floating) IN
      IF f = None THEN Len(q) + 1 ELSE Position(q, f)

\* Mutant: a client that is tiled again keeps its place among the floating.
ReorderFloatingOnly(s, c) ==
    IF s.mon[c] = None \/ c \notin s.floating THEN s
    ELSE [s EXCEPT !.list[s.mon[c]] = Append(Without(@, c), c)]

\* Move an attached client to the end of its own group.
reorder_client_in_monitor_groups(s, c) ==
    IF s.mon[c] = None \/ c \notin ToSet(s.list[s.mon[c]]) THEN s
    ELSE LET rest == Without(s.list[s.mon[c]], c)
             at   == IF c \in s.floating THEN Len(rest) + 1 ELSE FirstFloating(s, rest)
         IN  [s EXCEPT !.list[s.mon[c]] = InsertAt(rest, at, c)]

attach_back(s, c) ==
    IF s.mon[c] = None THEN s
    ELSE reorder_client_in_monitor_groups(
             [s EXCEPT !.list[s.mon[c]] = Append(@, c)], c)

\* Where a new client joins its group: at the head or, as configured, after the
\* focused client of the same group if that one stands inside the group.
new_client_insert_index(s, c, position) ==
    LET q      == s.list[s.mon[c]]
        chosen == s.sel[s.mon[c]]
        start  == IF c \in s.floating THEN FirstFloating(s, q) ELSE 1
        end    == IF c \in s.floating THEN Len(q) ELSE FirstFloating(s, q) - 1
    IN  IF /\ position = "after_focused"
           /\ chosen \in ToSet(q)
           /\ (chosen \in s.floating) = (c \in s.floating)
           /\ Position(q, chosen) \in start .. end
        THEN Position(q, chosen) + 1 ELSE start

\* A new client joins its monitor's list there, or at the tail of its group.
attach_new_client(s, c, position) ==
    IF position = "tail" THEN attach_back(s, c)
    ELSE IF s.mon[c] = None THEN s
    ELSE [s EXCEPT !.list[s.mon[c]] =
              InsertAt(@, new_client_insert_index(s, c, position), c)]

\* A client joins the focus stack as the most recently used.
attachstack(s, c) ==
    IF s.mon[c] = None THEN s ELSE [s EXCEPT !.stack[s.mon[c]] = <<c>> \o @]

detach(s, c) ==
    IF s.mon[c] = None THEN s ELSE [s EXCEPT !.list[s.mon[c]] = Without(@, c)]

\* A client leaves the stack; if its monitor had selected it, the monitor
\* selects the next visible entry.
detachstack(s, c) ==
    IF s.mon[c] = None THEN s
    ELSE LET m == s.mon[c]
             t == [s EXCEPT !.stack[m] = Without(@, c)]
         IN  IF s.sel[m] = c
               THEN [t EXCEPT !.sel[m] = find_next_visible_client_by_mon(t, m)]
               ELSE t

------------------------------------------------------------------------------
(* Selection and focus *)

\* Select c on m's current tag.
set_selected_client_for_current_tag(s, m, c) ==
    [s EXCEPT !.sel[m] = c, !.pertag[m][s.cur[m]] = c]

\* Neither m nor any of its tags remembers c any more.
clear_selection_of(s, m, c) ==
    [s EXCEPT !.sel[m] = IF @ = c THEN None ELSE @,
              !.pertag[m] = [i \in 0 .. TagCount |-> IF @[i] = c THEN None ELSE @[i]]]

\* Whom a request to focus c reaches: c, unless it is behind a lock shade, a
\* shell window or out of view; then the best visible window of the selected
\* monitor, if there is one.
FocusTarget(s, c) ==
    IF c \in Focusable(s) /\ ~is_locked(s, s.mon[c]) THEN c ELSE find_visible_client(s)

\* Focus moves to the target and its monitor; without a target the root window
\* takes the keyboard and the selected monitor selects nothing.
focus(s, c) ==
    LET f == FocusTarget(s, c)
        t == IF f = None THEN s
             ELSE attachstack(detachstack([s EXCEPT !.selmon = s.mon[f]], f), f)
    IN  IF t.selmon = None THEN t
        ELSE set_selected_client_for_current_tag(t, t.selmon, f)

\* The selection moves to monitor m, but never behind a lock shade.
switch_monitor_focusing(s, m, c) ==
    IF is_locked(s, m) THEN s ELSE focus([s EXCEPT !.selmon = m], c)

------------------------------------------------------------------------------
(* Views *)

\* Mutant: the current slot is kept whatever the view.
KeptSlot(s, m, mask) == s.cur[m]

\* The view of every tag; with a single tag there is no such view.
is_all_tags(mask) == TagCount > 1 /\ mask = Tags

\* The per-tag slot of a view: 0 for all tags; the current one if it is still
\* in view; else the lowest tag.
SlotFor(s, m, mask) ==
    IF is_all_tags(mask) THEN 0
    ELSE IF s.cur[m] \in mask THEN s.cur[m]
    ELSE CHOOSE t \in mask : \A u \in mask : t <= u

\* A view of no tag at all is ignored.
view_tag(s, m, mask) ==
    IF mask = {} THEN s
    ELSE [s EXCEPT !.view[m] = mask, !.cur[m] = SlotFor(s, m, mask)]

\* Sticky windows follow the monitor's view.
update_sticky_tags(s, m) ==
    [s EXCEPT !.tags = [c \in Clients |->
        IF c \in ToSet(s.list[m]) \cap s.sticky THEN s.view[m] ELSE @[c]]]

------------------------------------------------------------------------------
(* Outputs *)

\* The clients a monitor owns, in layout order, then any that are on it but
\* not listed.
clients_owned_by_monitor(s, m) ==
    LET owned == {c \in Clients : s.mon[c] = m}
    IN  Keep(s.list[m], owned) \o Keep(s.order, owned \ ToSet(s.list[m]))

\* Give the clients of q, which have no monitor, to monitor m: one by one each
\* goes to the end of its group, and to the top of the stack.
AttachAll(s, q, m) ==
    LET old == s.list[m]
        at  == FirstFloating(s, old)
    IN  [s EXCEPT !.mon = [c \in Clients |-> IF c \in ToSet(q) THEN m ELSE @[c]],
                  !.list[m] = SubSeq(old, 1, at - 1) \o Keep(q, Clients \ s.floating)
                                  \o SubSeq(old, at, Len(old)) \o Keep(q, s.floating),
                  !.stack[m] = Reverse(q) \o @]

\* Mutant: the output about to be removed may be chosen to take the clients.
FirstOutput(s, m) == First(s.mons, Monitors \ ToSet(s.locked))

\* Who takes the clients of a removed output: the first unlocked survivor,
\* else the first survivor, else nobody.
TakesOver(s, m) ==
    LET clear == First(s.mons, Monitors \ ({m} \cup ToSet(s.locked))) IN
      IF clear # None THEN clear ELSE First(s.mons, Monitors \ {m})

\* The clients of m go to another output or are orphaned until one is added.
move_clients_to_first_monitor(s, m) ==
    LET q == clients_owned_by_monitor(s, m)
        t == [s EXCEPT !.mon = [c \in Clients |-> IF c \in ToSet(q) THEN None ELSE @[c]],
                       !.list[m] = Keep(@, Clients \ ToSet(q)),
                       !.stack[m] = Keep(@, Clients \ ToSet(q))]
        target == TakesOver(s, m)
    IN  IF target = None THEN t ELSE AttachAll(t, q, target)

\* The monitor record of an output that was just plugged in, or is absent.
blank_monitor(s, m) ==
    [s EXCEPT !.list[m] = <<>>, !.stack[m] = <<>>, !.sel[m] = None,
              !.pertag[m] = [i \in 0 .. TagCount |-> None],
              !.view[m] = {1}, !.cur[m] = 1]

\* Forget an output; a selection that was on it falls back to the first one.
remove_monitor_state(s, m) ==
    LET t == [blank_monitor(s, m) EXCEPT !.mons = Without(@, m)] IN
      [t EXCEPT !.selmon = IF @ # m THEN @
                           ELSE IF t.mons = <<>> THEN None ELSE Head(t.mons)]

\* Locks of absent outputs come off, then the oldest until an output is clear;
\* a selection that is behind a shade moves to the first clear output.
prune_monitor_locks(s) ==
    LET kept  == Keep(s.locked, Present(s))
        spare == IF Len(kept) >= Len(s.mons) /\ kept # <<>>
                   THEN Len(kept) - Len(s.mons) + 1 ELSE 0
        t     == [s EXCEPT !.locked = SubSeq(kept, spare + 1, Len(kept))]
    IN  IF t.selmon # None /\ is_locked(t, t.selmon) /\ first_unlocked_monitor(t) # None
          THEN switch_monitor_focusing(t, first_unlocked_monitor(t), None) ELSE t

\* The focus stack of m without strays, then what it owns and misses there.
StackedOn(s, m) ==
    LET q == Keep(s.stack[m], {c \in Clients : s.mon[c] = m})
    IN  q \o Keep(clients_owned_by_monitor(s, m), Clients \ ToSet(q))

\* The applications of q, then the shell windows of r.
Exchanged(q, r) == Keep(q, Clients \ Docks) \o Keep(r, Docks)

\* Exchange all that two monitors show, the shell windows of each excepted.
\* Selections and views travel with the windows.
swap_monitor_contents(s, a, b) ==
    LET la == clients_owned_by_monitor(s, a)
        lb == clients_owned_by_monitor(s, b)
        sa == StackedOn(s, a)
        sb == StackedOn(s, b)
    IN  [s EXCEPT
           !.mon = [c \in Clients |-> IF c \in Docks THEN @[c] ELSE IF @[c] = a THEN b
                                      ELSE IF @[c] = b THEN a ELSE @[c]],
           !.list = [@ EXCEPT ![a] = Exchanged(lb, la), ![b] = Exchanged(la, lb)],
           !.stack = [@ EXCEPT ![a] = Exchanged(sb, sa), ![b] = Exchanged(sa, sb)],
           !.sel = [@ EXCEPT ![a] = s.sel[b], ![b] = s.sel[a]],
           !.pertag = [@ EXCEPT ![a] = s.pertag[b], ![b] = s.pertag[a]],
           !.view = [@ EXCEPT ![a] = s.view[b], ![b] = s.view[a]],
           !.cur = [@ EXCEPT ![a] = s.cur[b], ![b] = s.cur[a]]]
=============================================================================
