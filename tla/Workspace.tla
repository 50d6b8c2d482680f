----------------------------- MODULE Workspace -----------------------------
(* The window manager's commands and events on the desktop of module Desktop:*)
(* windows appear, close, are focused, minimized, floated, made sticky, sent *)
(* to tags and monitors; views change; outputs are plugged in, unplugged,    *)
(* locked and exchanged.  Every handler runs to its end on the manager's one *)
(* thread, so each is one action.                                            *)
(*                                                                           *)
(* Rules, parents and the memory of closed windows decide where a new window *)
(* goes; here they may choose any plugged-in monitor and any mask of Masks.  *)
EXTENDS Desktop

CONSTANTS
    Masks,      \* the tag masks commands and rules name
    Positions,  \* configured places of a new window: master, after_focused, tail
    MaxOutputs, \* bound on the outputs found at start-up
    MaxSteps    \* bound on the commands of one behaviour

ASSUME MasksAssumption == Masks \subseteq (SUBSET Tags) \ {{}}
ASSUME OutputsAssumption == MaxOutputs \in Nat

VARIABLES
    wm,         \* the desktop
    steps       \* commands handled so far

vars == <<wm, steps>>

\* A desktop without clients and outputs.
Empty ==
    [order |-> <<>>, mon |-> [c \in Clients |-> None], tags |-> [c \in Clients |-> {}],
     floating |-> {}, sticky |-> {}, hidden |-> {},
     list |-> [m \in Monitors |-> <<>>], stack |-> [m \in Monitors |-> <<>>],
     mons |-> <<>>, sel |-> [m \in Monitors |-> None],
     pertag |-> [m \in Monitors |-> [i \in 0 .. TagCount |-> None]],
     view |-> [m \in Monitors |-> {1}], cur |-> [m \in Monitors |-> 1],
     selmon |-> None, locked |-> <<>>]

\* Run a handler to its end.
Handle(desktop) ==
    /\ steps' = steps + 1
    /\ wm' = desktop

------------------------------------------------------------------------------
(* Windows come and go *)

\* A new window with its monitor, tags and group decided enters the list and
\* the stack.
Admitted(s, c, m, mask, floats, position) ==
    LET t == [s EXCEPT !.order = Append(@, c), !.mon[c] = m,
                       !.tags[c] = IF c \in Docks THEN Tags ELSE mask,
                       !.floating = IF floats \/ c \in Docks THEN @ \cup {c} ELSE @]
    IN  attachstack(attach_new_client(t, c, position), c)

\* Focus goes back to the window that had it.
FocusAgain(s, c) == IF c = None THEN s ELSE focus(s, c)

\* A mapped window asks for attention: a popup only through focus; others are
\* first selected on their monitor.  takes: the window accepts focus; follows:
\* the selection may follow it to another monitor.
handle_new_client_focus(s, c, popup, takes, follows) ==
    LET m    == s.mon[c]
        prev == get_selected_client_key(s)
        t    == IF popup \/ m = None THEN s ELSE [s EXCEPT !.sel[m] = c]
    IN  IF ~takes THEN FocusAgain(t, prev)
        ELSE IF popup \/ (m # None /\ m = s.selmon) THEN focus(t, c)
        ELSE IF ~follows THEN FocusAgain(t, prev)
        ELSE IF m = None THEN t
        ELSE focus(switch_monitor_focusing(t, m, None), c)

\* A window found by the start-up scan: an ordinary tile on the first tag of
\* the first output.
Adopted(s, c, position) ==
    handle_new_client_focus(Admitted(s, c, s.selmon, {1}, FALSE, position), c,
                            FALSE, c \notin Docks, TRUE)

\* The outputs found at start-up, the first one, if any, selected.
Init ==
    /\ \E n \in 0 .. MaxOutputs : \E q \in [1 .. n -> Monitors] :
         /\ \A i, j \in 1 .. n : q[i] = q[j] => i = j
         /\ wm = [Empty EXCEPT !.mons = q, !.selmon = IF q = <<>> THEN None ELSE Head(q)]
    /\ steps = 0

\* Before the first command the windows that are already there are managed one
\* by one.
setup_initial_windows(c, position) ==
    /\ steps = 0
    /\ c \notin Managed(wm)
    /\ wm' = Adopted(wm, c, position)
    /\ UNCHANGED steps

\* Where a new window may go.
Homes == IF wm.mons = <<>> THEN {None} ELSE Present(wm)

\* A window is mapped.
Manage(c, m, mask, position) ==
    /\ c \notin Managed(wm)
    /\ m \in Homes
    /\ \E s \in {handle_new_client_focus(
                      Admitted(wm, c, m, mask, floats, position), c, popup, takes, follows) :
                   floats, popup, takes, follows \in BOOLEAN} : Handle(s)

\* A window that was minimized before a restart is adopted as such; it takes
\* no focus.
ManageMinimized(c, m, mask, position) ==
    /\ c \notin Managed(wm) \cup Docks
    /\ m \in Homes
    /\ Handle([Admitted(wm, c, m, mask, FALSE, position) EXCEPT !.hidden = @ \cup {c}])

\* The per-tag slot that a window on these tags is remembered in.
slot_for_mask(mask) ==
    IF is_all_tags(mask) THEN 0 ELSE CHOOSE t \in mask : \A u \in mask : t <= u

\* The memory of closed windows sent the window out of the focused view: it is
\* selected on its own tag and focus stays where it was.
settle_remembered_placement_elsewhere(c, m, mask, position) ==
    /\ c \notin Managed(wm) \cup Docks
    /\ m \in Homes
    /\ LET s == Admitted(wm, c, m, mask, FALSE, position)
       IN  /\ ~(m # None /\ m = s.selmon /\ is_client_visible_by_key(s, c))
           /\ Handle(IF m = None THEN s
                     ELSE focus([s EXCEPT !.pertag[m][slot_for_mask(mask)] = c],
                                get_selected_client_key(s)))

\* A window is destroyed or withdrawn.
Removed(s, c) ==
    [s EXCEPT !.order = Without(@, c), !.mon[c] = None, !.tags[c] = {},
              !.floating = @ \ {c}, !.sticky = @ \ {c}, !.hidden = @ \ {c}]

unmanage_regular_client(c) ==
    /\ c \in Managed(wm)
    /\ LET s == IF wm.mon[c] = None THEN wm ELSE clear_selection_of(wm, wm.mon[c], c) IN
         Handle(focus(Removed(detachstack(detach(s, c), c), c), None))

------------------------------------------------------------------------------
(* Focus, minimize, float, sticky, order *)

Focus(c) == c \in Managed(wm) /\ Handle(focus(wm, c))

\* A direction key, a pointer crossing or an IPC client selects a monitor.
focusmon(m) ==
    /\ m \in Present(wm) \ {wm.selmon}
    /\ Handle(switch_monitor_focusing(wm, m, None))

Minimize(c) ==
    /\ c \in Managed(wm) \ wm.hidden
    /\ LET s == [wm EXCEPT !.hidden = @ \cup {c}] IN
         Handle(IF get_selected_client_key(wm) = c THEN focus(s, None) ELSE s)

Restore(c) ==
    /\ c \in wm.hidden
    /\ Handle(focus([wm EXCEPT !.hidden = @ \ {c}], c))

togglefloating(c) ==
    /\ c \in Managed(wm)
    /\ c = get_selected_client_key(wm)
    /\ Handle(reorder_client_in_monitor_groups(
                  [wm EXCEPT !.floating = IF c \in @ THEN @ \ {c} ELSE @ \cup {c}], c))

\* A client becomes sticky and adopts its monitor's view, or stops being
\* sticky and keeps its tags.  Nothing is focused.
Stick(c) ==
    /\ c \in Managed(wm) \ wm.sticky
    /\ Handle([wm EXCEPT !.sticky = @ \cup {c},
                         !.tags[c] = IF wm.mon[c] = None THEN @ ELSE wm.view[wm.mon[c]]])

Unstick(c) ==
    /\ c \in wm.sticky
    /\ Handle([wm EXCEPT !.sticky = @ \ {c}])

Tiled(s) == {c \in Clients : is_client_visible_by_key(s, c)} \ s.floating

\* Swap the selected tile with the next or the previous one, cyclically.
movestack(forward) ==
    LET c == get_selected_client_key(wm)
        q == wm.list[wm.selmon]
        i == Position(q, c)
        others == SubSeq(q, i + 1, Len(q)) \o SubSeq(q, 1, i - 1)
        d == First(IF forward THEN others ELSE Reverse(others), Tiled(wm))
    IN  /\ c # None
        /\ c \in ToSet(q) \ wm.floating
        /\ d # None
        /\ Handle([wm EXCEPT !.list[wm.selmon] =
                      [q EXCEPT ![i] = d, ![Position(q, d)] = c]])

\* The selected tile moves to the front; the front tile lets the next one by.
zoom ==
    LET c == get_selected_client_key(wm)
        q == wm.list[wm.selmon]
        after == IF c \in ToSet(q) THEN SubSeq(q, Position(q, c) + 1, Len(q)) ELSE q
        shown == {d \in Clients : is_client_visible_on_monitor(wm, d, wm.selmon)}
                     \ wm.floating
        d == IF c = First(q, shown) THEN First(after, shown) ELSE c
    IN  /\ c # None
        /\ c \notin wm.floating
        /\ d # None
        /\ Handle(focus([wm EXCEPT !.list[wm.mon[d]] = <<d>> \o Without(@, d)], d))

------------------------------------------------------------------------------
(* Tags and views *)

\* Any window is moved to a tag: the selected one by key, another one from the
\* overview.
move_client_to_tag(c, mask) ==
    /\ c \in Managed(wm)
    /\ wm.tags[c] # mask
    /\ Handle(focus([wm EXCEPT !.tags[c] = mask], None))

toggletag(mask) ==
    LET c == get_selected_client_key(wm)
        t == (wm.tags[c] \ mask) \cup (mask \ wm.tags[c])
    IN  /\ c # None
        /\ t # {}
        /\ Handle(focus([wm EXCEPT !.tags[c] = t], None))

\* A monitor, selected or not, views other tags; focus follows on the selected
\* one only, to the window that its tag selected last.
view_on_monitor(m, mask) ==
    /\ m \in Present(wm)
    /\ wm.view[m] # mask
    /\ LET s == update_sticky_tags(view_tag(wm, m, mask), m)
           c == s.pertag[m][s.cur[m]]
       IN  Handle(IF s.selmon # m THEN s
                  ELSE focus(s, IF c # None /\ s.mon[c] = m THEN c ELSE None))

toggleview(mask) ==
    LET m == wm.selmon
        v == (wm.view[m] \ mask) \cup (mask \ wm.view[m])
    IN  /\ m # None
        /\ Handle(focus(update_sticky_tags(view_tag(wm, m, v), m), None))

------------------------------------------------------------------------------
(* Monitors *)

\* Mutant: the source monitor's selections keep naming the window that left.
SentKeepingSelections(s, c, m) ==
    LET t == detachstack(detach(s, c), c) IN
      attachstack(attach_back([t EXCEPT !.mon[c] = m, !.tags[c] = t.view[m]], c), c)

\* A window changes monitors and takes on the target's view.
Sent(s, c, m) ==
    LET t == detachstack(detach(s, c), c)
        u == IF s.mon[c] = None THEN t ELSE clear_selection_of(t, s.mon[c], c)
    IN  attachstack(attach_back([u EXCEPT !.mon[c] = m, !.tags[c] = u.view[m]], c), c)

sendmon(c, m) ==
    /\ c \in Managed(wm)
    /\ m \in Present(wm) \ {wm.mon[c]}
    /\ Handle(focus(Sent(wm, c, m), None))

\* A window is dropped on another monitor, which is selected with it; the drop
\* is refused where a lock shade is.
check_monitor_consistency(m) ==
    LET c == get_selected_client_key(wm) IN
      /\ c # None
      /\ m \in Present(wm) \ {wm.mon[c]}
      /\ ~is_locked(wm, m)
      /\ Handle(focus([focus(Sent(wm, c, m), None) EXCEPT !.selmon = m], None))

\* The selected monitor exchanges its workspaces with another one.
swapmon(m) ==
    LET a == wm.selmon IN
      /\ a # None
      /\ m \in Present(wm) \ {a}
      /\ ~is_locked(wm, a) /\ ~is_locked(wm, m)
      /\ LET s == swap_monitor_contents(wm, a, m)
             c == s.sel[a]
         IN  Handle(focus(s, IF c # None /\ s.mon[c] = a THEN c ELSE None))

\* An output is plugged in; windows without an output go to the selected one.
handle_output_added(m) ==
    /\ m \notin Present(wm)
    /\ LET s == [blank_monitor(wm, m) EXCEPT !.mons = Append(@, m),
                     !.selmon = IF @ = None THEN m ELSE @]
           orphans == Keep(s.order, {c \in Clients : s.mon[c] = None})
       IN  Handle(prune_monitor_locks(AttachAll(s, orphans, s.selmon)))

\* Mutant: locks are not looked at again when an output goes away.
handle_output_removed_keeping_locks(m) ==
    /\ m \in Present(wm)
    /\ LET s == remove_monitor_state(move_clients_to_first_monitor(wm, m), m) IN
         Handle(IF wm.selmon = m THEN focus(s, None) ELSE s)

\* An output is unplugged.
handle_output_removed(m) ==
    /\ m \in Present(wm)
    /\ LET s == prune_monitor_locks(
                    remove_monitor_state(move_clients_to_first_monitor(wm, m), m))
       IN  Handle(IF wm.selmon = m THEN focus(s, None) ELSE s)

\* One monitor is covered by a shade, but never the last clear one.
lock_monitor(m) ==
    /\ m \in Present(wm)
    /\ ~is_locked(wm, m)
    /\ Len(wm.locked) + 1 < Len(wm.mons)
    /\ LET s == [wm EXCEPT !.locked = Append(@, m)] IN
         Handle(IF s.selmon = m
                  THEN switch_monitor_focusing(s, first_unlocked_monitor(s), None)
                  ELSE s)

\* The password lifts a shade.
lift_monitor_lock(m) ==
    /\ is_locked(wm, m)
    /\ Handle([wm EXCEPT !.locked = Without(@, m)])

------------------------------------------------------------------------------
Command ==
    \/ \E c \in Clients, m \in Monitors \cup {None}, mask \in Masks, p \in Positions :
         \/ Manage(c, m, mask, p)
         \/ ManageMinimized(c, m, mask, p)
         \/ settle_remembered_placement_elsewhere(c, m, mask, p)
    \/ \E c \in Clients :
         \/ unmanage_regular_client(c)
         \/ Focus(c) \/ Minimize(c) \/ Restore(c)
         \/ togglefloating(c) \/ Stick(c) \/ Unstick(c)
    \/ \E forward \in BOOLEAN : movestack(forward)
    \/ zoom
    \/ \E mask \in Masks :
         \/ \E c \in Clients : move_client_to_tag(c, mask)
         \/ \E m \in Monitors : view_on_monitor(m, mask)
         \/ toggletag(mask) \/ toggleview(mask)
    \/ \E m \in Monitors :
         \/ focusmon(m) \/ check_monitor_consistency(m) \/ swapmon(m)
         \/ handle_output_added(m) \/ handle_output_removed(m)
         \/ lock_monitor(m) \/ lift_monitor_lock(m)
         \/ \E c \in Clients : sendmon(c, m)

Next ==
    \/ \E c \in Clients, p \in Positions : setup_initial_windows(c, p)
    \/ steps < MaxSteps /\ Command

Spec == Init /\ [][Next]_vars

------------------------------------------------------------------------------
(* Properties *)

\* Every field has its type; a monitor's current slot is 0 only when it views
\* all tags, and otherwise a tag in view, so a per-tag setting or selection is
\* never that of a tag out of view (view_tag).
TypeOK ==
    /\ wm.mon \in [Clients -> Monitors \cup {None}]
    /\ wm.tags \in [Clients -> SUBSET Tags]
    /\ wm.sticky \cup wm.hidden \cup wm.floating \subseteq Managed(wm)
    /\ wm.selmon \in Present(wm) \cup {None}
    /\ wm.selmon = None <=> wm.mons = <<>>
    /\ \A m \in Monitors :
         /\ wm.view[m] \subseteq Tags
         /\ IF wm.cur[m] = 0 THEN wm.view[m] = Tags ELSE wm.cur[m] \in wm.view[m]

\* A client is in the list and the stack of the monitor it is on, once in each,
\* and of no other; it is on a plugged-in output whenever there is one
\* (attach, detach and the moves of whole monitors).
ListedOnce ==
    /\ \A c \in Managed(wm) :
         /\ wm.mon[c] \in Present(wm) \/ (wm.mon[c] = None /\ wm.mons = <<>>)
         /\ \A m \in Monitors :
              LET n == IF wm.mon[c] = m THEN 1 ELSE 0 IN
                /\ Cardinality({i \in DOMAIN wm.list[m] : wm.list[m][i] = c}) = n
                /\ Cardinality({i \in DOMAIN wm.stack[m] : wm.stack[m][i] = c}) = n
    /\ \A m \in Monitors :
         ToSet(wm.list[m]) \cup ToSet(wm.stack[m]) \subseteq Managed(wm)

\* In every monitor's list the tiled windows come before the floating ones.
Grouped(s) ==
    \A m \in Monitors : \A i, j \in DOMAIN s.list[m] :
        (i < j /\ s.list[m][i] \in s.floating) => s.list[m][j] \in s.floating

\* No command breaks the grouping by which new windows are inserted
\* (attach_new_client), as long as the bars float.  A bar that the user tiled
\* (togglefloating does not refuse one) is left behind the floating windows by
\* an exchange of monitors.
TiledFirst ==
    [][(Grouped(wm) /\ Docks \cap Managed(wm) \subseteq wm.floating) => Grouped(wm')]_vars

\* What a monitor or one of its tags remembers as selected is a window that is
\* on that monitor: a view never sends focus to another screen, or to a window
\* that is gone (clear_selection_of).
SelectionOwned ==
    \A m \in Monitors :
        /\ wm.sel[m] \notin Docks \cup {None} => wm.mon[wm.sel[m]] = m
        /\ \A i \in 0 .. TagCount :
             wm.pertag[m][i] # None => wm.mon[wm.pertag[m][i]] = m

\* The selected window can be seen: it is an application, in view, and no lock
\* shade covers the selected monitor.
Seen(s) ==
    \/ s.selmon = None
    \/ /\ ~is_locked(s, s.selmon)
       /\ s.sel[s.selmon] # None => s.sel[s.selmon] \in Focusable(s)

\* The keyboard never stays on a window nobody can see (focus, and every
\* handler that ends with it).  Two handlers do not hand focus on: one that
\* ends stickiness (set_client_sticky), and the mapping of a window that
\* refuses focus while nothing is selected (handle_new_client_focus).
FocusStaysInView ==
    [][Seen(wm) => \/ Seen(wm')
                   \/ \E c \in Clients : Unstick(c)
                   \/ /\ get_selected_client_key(wm) = None
                      /\ Managed(wm') # Managed(wm)]_vars
=============================================================================
