------------------------------ MODULE Desktop -------------------------------
(***************************************************************************)
(* The desktop with its windows (src/src/gui: desktop.cpp, widget.cpp,     *)
(* window.cpp; FillRectangle and PutPixel of src/src/drivers/vga.cpp), as  *)
(* kernel.cpp composes them with the mouse driver in graphics mode.        *)
(*                                                                         *)
(* A packet of the mouse moves the pointer and drags windows, with         *)
(* interrupts off.  Windows are children of the desktop and have no        *)
(* children of their own; the first one is in front.                       *)
(***************************************************************************)
EXTENDS MouseDriver

CONSTANTS
  W, H,       \* the size of the desktop (320 x 200)
  Windows,    \* the windows in the order of AddChild: x, y, w, h
  UintRange   \* unsigned coordinates are counted modulo this (2^32)

(* kernel.cpp puts small windows on a small desktop: a movement across all *)
(* of it does not take their far sides to the end of the numbers.          *)
ASSUME DesktopAssumption ==
  /\ {W, H, UintRange} \subseteq Nat \ {0}
  /\ Windows \in Seq([x : Int, y : Int, w : Nat, h : Nat])
  /\ \A i \in DOMAIN Windows :
       /\ \A n \in {Windows[i].x, 2 * W} : n + Windows[i].w < UintRange
       /\ \A n \in {Windows[i].y, 2 * H} : n + Windows[i].h < UintRange

VARIABLES
  screen,     \* the pointer (x, y), where each window is, and Dragging of each
  grip,       \* where in each window the pointer took it (history)
  covered     \* a dragged window was not the one under the pointer (history)

desktopVars == <<screen, grip, covered>>

Window == DOMAIN Windows

DesktopInit ==
  /\ screen = [x |-> W \div 2, y |-> H \div 2,
               at |-> [i \in Window |-> <<Windows[i].x, Windows[i].y>>],
               Dragging |-> [i \in Window |-> FALSE]]
  /\ grip = [i \in Window |-> <<0, 0>>]
  /\ covered = FALSE

-----------------------------------------------------------------------------
(* Widgets *)

ContainsCoordinate(s, i, X, Y) ==
  /\ s.at[i][1] <= X /\ X < s.at[i][1] + Windows[i].w
  /\ s.at[i][2] <= Y /\ Y < s.at[i][2] + Windows[i].h

(* The child of the desktop an event at X, Y is passed to, 0 if there is   *)
(* none: the loops of CompositeWidget break at the first.                  *)
Child(s, X, Y) ==
  SelectInSeq([i \in Window |-> i], LAMBDA i : ContainsCoordinate(s, i, X, Y))

(* Window::OnMouseMove. *)
Drag(s, i, dx, dy) ==
  IF i # 0 /\ s.Dragging[i]
    THEN [s EXCEPT !.at[i] = <<@[1] + dx, @[2] + dy>>]
    ELSE s

PassedTwice(s, newx, newy) ==
  LET first == Child(s, s.x, s.y)
      t == Drag(s, first, newx - s.x, newy - s.y)
  IN  Drag(t, Child(t, newx, newy), newx - s.x, newy - s.y)

(* CompositeWidget::OnMouseMove: the child under the old place gets the    *)
(* event, and then, with what that has moved, the one under the new place. *)
Passed(s, newx, newy) ==
  LET first == Child(s, s.x, s.y)
      t == Drag(s, first, newx - s.x, newy - s.y)
      second == Child(t, newx, newy)
  IN  IF second = first THEN t ELSE Drag(t, second, newx - s.x, newy - s.y)

(* Division rounds towards zero. *)
Quarter(n) == IF n < 0 THEN -((-n) \div 4) ELSE n \div 4

Within(n, size) == IF n < 0 THEN 0 ELSE IF n >= size THEN size - 1 ELSE n

(* Desktop::OnMouseMove. *)
OnMouseMove(s, dx, dy) ==
  LET newx == Within(s.x + Quarter(dx), W)
      newy == Within(s.y + Quarter(dy), H)
  IN  [Passed(s, newx, newy) EXCEPT !.x = newx, !.y = newy]

(* Window::OnMouseDown and OnMouseUp. *)
Pressed(s, i, button) == IF i = 0 THEN s ELSE [s EXCEPT !.Dragging[i] = (button = 1)]

Released(s, i) == IF i = 0 THEN s ELSE [s EXCEPT !.Dragging[i] = FALSE]

(* The desktop passes a button to the child under the pointer. *)
OnMouseDown(s, button) == Pressed(s, Child(s, s.x, s.y), button)

OnMouseUp(s, button) == Released(s, Child(s, s.x, s.y))

Handled(s, event) ==
  CASE event.call = "OnMouseMove" -> OnMouseMove(s, event.x, event.y)
    [] event.call = "OnMouseDown" -> OnMouseDown(s, event.button)
    [] event.call = "OnMouseUp"   -> OnMouseUp(s, event.button)

(* The desktop handles the calls of a mouse interrupt. *)
DesktopHandles(calls) ==
  /\ screen' = FoldLeft(Handled, screen, calls)
  /\ grip' = [i \in Window |->
                IF ~screen'.Dragging[i] THEN <<0, 0>>
                ELSE IF screen.Dragging[i] THEN grip[i]
                ELSE <<screen'.x - screen'.at[i][1], screen'.y - screen'.at[i][2]>>]
  /\ covered' = (covered \/ \E i \in Window :
                   screen'.Dragging[i] /\ Child(screen', screen'.x, screen'.y) # i)

-----------------------------------------------------------------------------
(* Drawing *)

(* The columns (or rows) the loop for(X = x; X < x + w; X++) gets to.  The *)
(* bounds are unsigned, so X is compared as an unsigned number.            *)
Filled(from, w) ==
  {X \in from..(from + w - 1) :
     \A before \in from..X : before % UintRange < (from + w) % UintRange}

Covers(s, i, X, Y) ==
  X \in Filled(s.at[i][1], Windows[i].w) /\ Y \in Filled(s.at[i][2], Windows[i].h)

SeenForwards(s, X, Y) ==
  FoldLeft(LAMBDA below, i : IF Covers(s, i, X, Y) THEN i ELSE below, 0,
           [i \in Window |-> i])

(* What a pixel shows after CompositeWidget::Draw: the desktop paints it   *)
(* (0), and then the children do, from the last to the first.              *)
Seen(s, X, Y) ==
  FoldLeft(LAMBDA below, i : IF Covers(s, i, X, Y) THEN i ELSE below, 0,
           Reverse([i \in Window |-> i]))

-----------------------------------------------------------------------------
(* Properties *)

(* Whatever the pointer runs into and whichever buttons go down and up, a  *)
(* window is dragged only while button 1 is held, one window at a time,    *)
(* and it keeps its place under the pointer, unless a dragged window gets  *)
(* behind another one.                                                     *)
DragFollowsPointer ==
  ~covered => \A i \in Window : screen.Dragging[i] =>
    /\ Holds(buttons, 1)
    /\ <<screen.x - screen.at[i][1], screen.y - screen.at[i][2]>> = grip[i]
    /\ \A j \in Window \ {i} : ~screen.Dragging[j]

(* A click goes to what is seen under the pointer: drawing and the mouse   *)
(* agree which window is in front and how far each one reaches.  A window  *)
(* that begins left of the screen or above it is the exception: its loops  *)
(* compare a negative number as an unsigned one and draw nothing.          *)
DrawnWhereClicked ==
  \A X \in 0..(W - 1), Y \in 0..(H - 1) :
    LET i == Child(screen, X, Y)
        cut == i # 0 /\ (screen.at[i][1] < 0 \/ screen.at[i][2] < 0)
    IN  cut \/ Seen(screen, X, Y) = i

=============================================================================
