------------------------------- MODULE Desktop ------------------------------
(***************************************************************************)
(* The window manager and the desktop, kernel/gui/window.c and desktop.c:  *)
(* the window pool with its z-order and active window, and desktop_run's   *)
(* handling of mouse and keyboard events.  Drawing is left out.            *)
(*                                                                         *)
(* A GUIWindow pointer is a slot of the pool; closing a window moves those *)
(* behind it to other slots.  Distances are the code's, in pixels.         *)
(***************************************************************************)
EXTENDS Integers, Sequences, SequencesExt, FiniteSets

CONSTANTS
  MaxWindows,          \* WIN_MAX_WINDOWS
  ScreenHeight,
  Points,              \* where the mouse may be
  MaxEvents            \* bound on events

ASSUME DesktopAssumption ==
  /\ MaxWindows \in Nat \ {0} /\ MaxEvents \in Nat
  /\ ScreenHeight \in Nat /\ Points \subseteq Int \X Int

VARIABLES
  windows,             \* the pool, slots 1 .. win_count
  win_order,           \* slots, the topmost last
  active_win,          \* slot of the active window, 0: NULL
  next_id,
  start_menu_open,
  dragging, drag_win, drag_off,
  prev_left,           \* button in the last event handled
  on,                  \* FALSE once powered off
  events,
  grabbed,             \* the window whose title bar was pressed, 0: none
  closedSince,         \* a window was closed after that, the button held
  misled,              \* windows given the painter of one the pool had no room for
  event                \* the event handled last, and where a press was

wmVars == <<windows, win_order, active_win, next_id>>
deskVars == <<wmVars, start_menu_open, dragging, drag_win, drag_off, prev_left, on,
              events, grabbed, closedSince, misled, event>>

TITLEBAR == 20
BORDER == 3
TASKBAR == 28
CLOSE == 16

\* The four kinds of window, where they open and how large they are.
Shape == [manager |-> <<50, 50, 280, 120>>, about |-> <<100, 80, 240, 130>>,
          info |-> <<120, 100, 260, 130>>, shell |-> <<80, 60, 320, 150>>]

In(p, x, y, w, h) == p[1] >= x /\ p[1] < x + w /\ p[2] >= y /\ p[2] < y + h

-----------------------------------------------------------------------------
(* The window manager, as operators on its state. *)

wm == [win |-> windows, order |-> win_order, active |-> active_win, id |-> next_id]

\* Mutant: the new window is put on top and not made active.
wm_create_window_inactive(m, kind) ==
  IF Len(m.win) = MaxWindows THEN m
  ELSE [m EXCEPT !.win = Append(@, [id |-> m.id, kind |-> kind, x |-> Shape[kind][1],
                                    y |-> Shape[kind][2], paint |-> "none"]),
                 !.order = Append(@, Len(m.win) + 1), !.id = @ + 1]

wm_create_window(m, kind) ==
  IF Len(m.win) = MaxWindows THEN m
  ELSE [win |-> Append(m.win, [id |-> m.id, kind |-> kind, x |-> Shape[kind][1],
                               y |-> Shape[kind][2], paint |-> "none"]),
        order |-> Append(m.order, Len(m.win) + 1),
        active |-> Len(m.win) + 1,
        id |-> m.id + 1]

\* Mutant: the slots move and the order is only shortened.
wm_destroy_window_order(m, s) ==
  LET n == Len(m.win) - 1
  IN  IF s \notin DOMAIN m.win THEN m
      ELSE [m EXCEPT !.win = RemoveAt(@, s), !.order = Front(@), !.active = n]

\* The order falls back to that of the pool, and its last window is active.
wm_destroy_window(m, s) ==
  LET n == Len(m.win) - 1
  IN  IF s \notin DOMAIN m.win THEN m
      ELSE [m EXCEPT !.win = RemoveAt(@, s), !.order = [i \in 1 .. n |-> i], !.active = n]

\* The slots above s move down one place, and s is put on top.
wm_bring_to_front(m, s) ==
  LET n == Len(m.order)
      at == {i \in 1 .. n : m.order[i] = s}
      idx == CHOOSE i \in at : \A j \in at : i <= j
  IN  IF at = {} THEN m
      ELSE [m EXCEPT !.order = [i \in 1 .. n |-> IF i < idx THEN @[i]
                                                 ELSE IF i < n THEN @[i + 1] ELSE s],
                     !.active = s]

Covers(w, p) == In(p, w.x, w.y, Shape[w.kind][3], Shape[w.kind][4])

Under(p) == {i \in DOMAIN win_order : Covers(windows[win_order[i]], p)}

\* Mutant: the search starts at the bottom.
wm_window_at_bottom(p) ==
  IF Under(p) = {} THEN 0
  ELSE win_order[CHOOSE i \in Under(p) : \A j \in Under(p) : i <= j]

wm_window_at(p) ==
  IF Under(p) = {} THEN 0
  ELSE win_order[CHOOSE i \in Under(p) : \A j \in Under(p) : i >= j]

wm_titlebar_hit(w, p) ==
  In(p, w.x + BORDER, w.y + BORDER, Shape[w.kind][3] - 2 * BORDER, TITLEBAR)

wm_close_btn_hit(w, p) ==
  In(p, w.x + Shape[w.kind][3] - BORDER - CLOSE - 2, w.y + BORDER + 2, CLOSE, CLOSE)

-----------------------------------------------------------------------------
(* Opening windows. *)

\* The manager's window sets its own painter; the others set that of the
\* active window, which is another one when the pool is full.
Opened(m, kind) ==
  LET m1 == wm_create_window(m, kind)
      s == IF kind = "manager" THEN (IF m1 = m THEN 0 ELSE Len(m1.win)) ELSE m1.active
  IN  IF s = 0 THEN m1 ELSE [m1 EXCEPT !.win[s].paint = kind]

\* pm_click: three icons in the client area.
PmIcon(q) == CASE In(q, 20, 10, 32, 48) -> "about" [] In(q, 90, 10, 32, 48) -> "info"
               [] In(q, 160, 10, 32, 48) -> "shell" [] OTHER -> "none"

\* The icons of the desktop.
DesktopIcon(p) == CASE In(p, 10, 20, 48, 48) -> "manager" [] In(p, 10, 90, 48, 48) -> "about"
                    [] In(p, 10, 160, 48, 48) -> "shell" [] In(p, 10, 230, 48, 48) -> "info"
                    [] OTHER -> "none"

\* start_menu_hit with the actions of the items.
StartMenu(p) ==
  LET y == ScreenHeight - TASKBAR - 140 + 8
  IN  CASE In(p, 2, y, 160, 20) -> "manager" [] In(p, 2, y + 24, 160, 20) -> "about"
        [] In(p, 2, y + 48, 160, 20) -> "shell" [] In(p, 2, y + 86, 160, 20) -> "off"
        [] OTHER -> "none"

SetWm(m) ==
  /\ windows' = m.win /\ win_order' = m.order
  /\ active_win' = m.active /\ next_id' = m.id

\* The window whose painter Opened changes, when there is no new one.
Misled(m, kind) ==
  IF kind \in {"none", "manager"} \/ Len(m.win) # MaxWindows THEN {}
  ELSE {m.win[m.active].id}

Open(m, kind) ==
  /\ SetWm(IF kind = "none" THEN m ELSE Opened(m, kind))
  /\ misled' = misled \cup Misled(m, kind)

Press(p) == [kind |-> "press", at |-> p]
NoPress(k) == [kind |-> k, at |-> <<0, 0>>]

DesktopInit ==
  LET m == Opened([win |-> << >>, order |-> << >>, active |-> 0, id |-> 1], "manager")
  IN  /\ windows = m.win /\ win_order = m.order /\ active_win = m.active /\ next_id = m.id
      /\ start_menu_open = FALSE /\ dragging = FALSE /\ drag_win = 0 /\ drag_off = <<0, 0>>
      /\ prev_left = FALSE /\ on = TRUE /\ events = 0
      /\ grabbed = 0 /\ closedSince = FALSE /\ misled = {}
      /\ event = NoPress("mouse")

-----------------------------------------------------------------------------
(* Events. *)

\* Mutant: letting the button go over a window leaves dragging set.
Release_sticky ==
  /\ UNCHANGED <<dragging, drag_win>>
  /\ grabbed' = 0 /\ closedSince' = FALSE
  /\ UNCHANGED <<start_menu_open, drag_off, on, misled>>

\* handle_click with the button up.
Release ==
  /\ dragging' = FALSE /\ drag_win' = 0
  /\ grabbed' = 0 /\ closedSince' = FALSE
  /\ UNCHANGED <<start_menu_open, drag_off, on, misled>>

\* handle_click with the button down.
PressMenu(p) ==
  /\ start_menu_open
  /\ start_menu_open' = FALSE
  /\ on' = (StartMenu(p) # "off")
  /\ Open(wm, IF StartMenu(p) = "off" THEN "none" ELSE StartMenu(p))
  /\ UNCHANGED <<dragging, drag_win, drag_off, grabbed, closedSince>>

PressTaskbar(p) ==
  /\ ~start_menu_open /\ p[2] >= ScreenHeight - TASKBAR
  /\ start_menu_open' = (p[1] >= 2 /\ p[1] < 62)
  /\ SetWm(wm)
  /\ UNCHANGED <<dragging, drag_win, drag_off, on, grabbed, closedSince, misled>>

PressWindow(p) ==
  LET s == wm_window_at(p)
      w == windows[s]
      front == wm_bring_to_front(wm, s)
  IN  /\ ~start_menu_open /\ p[2] < ScreenHeight - TASKBAR /\ s # 0
      /\ CASE wm_close_btn_hit(w, p) ->
                /\ SetWm(wm_destroy_window(front, s))
                /\ UNCHANGED <<dragging, drag_win, drag_off, grabbed, misled>>
           [] ~wm_close_btn_hit(w, p) /\ wm_titlebar_hit(w, p) ->
                /\ SetWm(front)
                /\ dragging' = TRUE /\ drag_win' = s
                /\ drag_off' = <<p[1] - w.x, p[2] - w.y>>
                /\ grabbed' = w.id
                /\ UNCHANGED misled
           [] OTHER ->
                /\ Open(front, IF w.kind = "manager"
                               THEN PmIcon(<<p[1] - w.x - BORDER, p[2] - w.y - BORDER - TITLEBAR>>)
                               ELSE "none")
                /\ UNCHANGED <<dragging, drag_win, drag_off, grabbed>>
      /\ UNCHANGED <<start_menu_open, on, closedSince>>

PressDesktop(p) ==
  /\ ~start_menu_open /\ p[2] < ScreenHeight - TASKBAR /\ wm_window_at(p) = 0
  /\ Open(wm, DesktopIcon(p))
  /\ UNCHANGED <<start_menu_open, dragging, drag_win, drag_off, on, grabbed, closedSince>>

\* The dragged window goes with the mouse.  A slot past the last window is
\* written to without effect: wm_create_window clears it.
Dragged(p) ==
  IF dragging /\ drag_win \in DOMAIN windows
  THEN [wm EXCEPT !.win[drag_win].x = p[1] - drag_off[1],
                  !.win[drag_win].y = p[2] - drag_off[2]]
  ELSE wm

\* A mouse event.  A press finds no drag in progress: a release ended it.
Mouse(p, left) ==
  /\ on /\ events < MaxEvents /\ events' = events + 1
  /\ prev_left' = left
  /\ event' = (IF left /\ ~prev_left THEN Press(p) ELSE NoPress("mouse"))
  /\ \/ /\ left /\ ~prev_left
        /\ PressMenu(p) \/ PressTaskbar(p) \/ PressWindow(p) \/ PressDesktop(p)
     \/ ~left /\ prev_left /\ SetWm(Dragged(p)) /\ Release
     \/ /\ left = prev_left
        /\ SetWm(Dragged(p))
        /\ UNCHANGED <<start_menu_open, dragging, drag_win, drag_off, on,
                       grabbed, closedSince, misled>>

\* No window has an on_key handler, so other keys do nothing.
Escape ==
  /\ on /\ events < MaxEvents /\ events' = events + 1
  /\ event' = NoPress("escape")
  /\ active_win # 0
  /\ SetWm(wm_destroy_window(wm, active_win))
  /\ closedSince' = (grabbed # 0)
  /\ UNCHANGED <<start_menu_open, dragging, drag_win, drag_off, prev_left, on, grabbed, misled>>

DesktopNext ==
  \/ \E p \in Points, left \in BOOLEAN : Mouse(p, left)
  \/ Escape

DesktopSpec == DesktopInit /\ [][DesktopNext]_deskVars

-----------------------------------------------------------------------------
(* Properties. *)

\* Whatever was opened, closed and raised, every window is in the z-order
\* exactly once, and the active window, which Escape closes, is on top.
ZOrder ==
  /\ Len(win_order) = Len(windows)
  /\ {win_order[i] : i \in DOMAIN win_order} = DOMAIN windows
  /\ active_win = (IF windows = << >> THEN 0 ELSE Last(win_order))
  /\ \A i, j \in DOMAIN windows : windows[i].id = windows[j].id => i = j

Ids(ws) == {ws[i].id : i \in DOMAIN ws}
Slot(ws, id) == CHOOSE i \in DOMAIN ws : ws[i].id = id

\* The window that is seen at point p.
Seen(p) == windows[win_order[CHOOSE i \in Under(p) : \A j \in Under(p) : i >= j]]

\* The window an event asks to close: Escape the one on top, a press the one
\* whose close button is seen at the point pressed, if no menu is open there.
Asked(e) ==
  CASE e.kind = "escape" -> {windows[Last(win_order)].id}
    [] e.kind = "press" ->
         {id \in Ids(windows) : /\ ~start_menu_open /\ e.at[2] < ScreenHeight - TASKBAR
                                /\ Under(e.at) # {} /\ Seen(e.at).id = id
                                /\ wm_close_btn_hit(Seen(e.at), e.at)}
    [] OTHER -> {}

CloseStep == Ids(windows) \ Ids(windows') = Asked(event')

\* Escape closes the window on top, a click on a close button the window it
\* is seen on; no other event, and no other window, ever.
CloseOnlyAsked == [][CloseStep]_deskVars

\* The windows that are at another place after the step.
Moved ==
  {id \in Ids(windows) \cap Ids(windows') :
     LET w == windows[Slot(windows, id)]  v == windows'[Slot(windows', id)]
     IN  <<w.x, w.y>> # <<v.x, v.y>>}

DragStep ==
  \A id \in Moved : /\ dragging /\ event'.kind = "mouse"
                    /\ Moved = {id}
                    /\ id = grabbed \/ closedSince

\* Only the mouse moves windows, one at a time and while a title bar is held:
\* the window pressed there.  Once a window was closed during the drag, the
\* slot of drag_win may hold another one, and that one moves.
DragFollows == [][DragStep]_deskVars

\* A window shows what it was opened for, except one that was active when
\* another was asked for with the pool full: the painter went to it.
PaintMatches == \A i \in DOMAIN windows : \/ windows[i].paint = windows[i].kind
                                          \/ windows[i].id \in misled
=============================================================================
