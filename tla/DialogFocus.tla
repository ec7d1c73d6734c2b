------------------------------ MODULE DialogFocus ------------------------------
(***************************************************************************)
(* The keyboard focus of a confirmation dialog: useDialogFocus             *)
(* (frontend/src/hooks/useDialogFocus.ts) under the risk dialogs of the    *)
(* deploy page and of the deployment page, which pass it a new onClose on  *)
(* every render of their page, so that its effect is cleaned up and run    *)
(* again whenever the page renders.                                        *)
(***************************************************************************)
EXTENDS Integers, Sequences

CONSTANTS
  MaxOpens,    \* bound on how often the dialog is opened
  MaxRenders   \* bound on the renders of the page while it is open

VARIABLES
  dlgOpen, dlgAck,
  dlgBusy,    \* the request of the dialog is under way, or what it loads afterwards
  opener,     \* the button that opened the dialog is still in the page
  focus,      \* document.activeElement
  previous,   \* previousFocus of the running effect
  frame,      \* an animation frame is requested
  wasBusy,    \* the dialog was busy since it was opened
  opens, renders

focusVars ==
  <<dlgOpen, dlgAck, dlgBusy, opener, focus, previous, frame, wasBusy, opens, renders>>

(* The controls of the dialog in the order of the document; "opener" is    *)
(* the button of the page that opened it, "page" another element of the    *)
(* page, and "body" is where the focus falls from an element that goes.    *)
Order == <<"close", "check", "cancel", "confirm">>
Inside == {Order[i] : i \in DOMAIN Order}
Enabled(e, busy, ack) ==
  CASE e = "check" -> TRUE
    [] e = "confirm" -> ack /\ ~busy
    [] OTHER -> ~busy
Focusable ==
  IF dlgBusy THEN <<"check">>
  ELSE IF dlgAck THEN Order ELSE <<"close", "check", "cancel">>

FocusInit ==
  /\ dlgOpen = FALSE /\ dlgBusy = FALSE /\ dlgAck = FALSE /\ opener = TRUE
  /\ focus = "page" /\ previous = "page" /\ frame = FALSE
  /\ wasBusy = FALSE /\ opens = 0 /\ renders = 0

(* What can take the focus: focus() does nothing on a disabled or removed  *)
(* element, nor on the body; the opener is disabled with the dialog.       *)
Able(open, busy, there) ==
  {"page"} \union {e \in {"opener"} : there /\ ~busy}
           \union {e \in Inside : open /\ Enabled(e, busy, dlgAck)}

FocusOn(e, able, at) == IF e \in able THEN e ELSE at

(* Mutant of CleanUp: the listener is removed, the focus is left.          *)
CleanUpOnly(able, at) == at

(* The clean-up of the effect restores the focus.                          *)
CleanUp(able, at) == FocusOn(previous, able, at)

(* A click focuses the opener and opens the dialog; the effect remembers   *)
(* the focus and asks for a frame.                                         *)
Open ==
  /\ ~dlgOpen /\ ~dlgBusy /\ opens < MaxOpens
  /\ dlgOpen' = TRUE /\ dlgAck' = FALSE /\ wasBusy' = FALSE /\ opener' = TRUE
  /\ opens' = opens + 1 /\ renders' = 0
  /\ focus' = "opener" /\ previous' = "opener" /\ frame' = TRUE
  /\ UNCHANGED dlgBusy

(* The frame focuses the cancel button.                                    *)
Frame ==
  /\ frame /\ frame' = FALSE
  /\ focus' = FocusOn("cancel", Able(dlgOpen, dlgBusy, opener), focus)
  /\ UNCHANGED <<dlgOpen, dlgBusy, dlgAck, opener, previous, wasBusy, opens, renders>>

(* The effect runs again: clean-up, then a new previousFocus and frame.    *)
Rerun(busy, at) ==
  /\ focus' = CleanUp(Able(TRUE, busy, opener'), at)
  /\ previous' = focus' /\ frame' = TRUE

(* The page renders: an error is set, or a poll was answered, after which  *)
(* the opener may be gone (no rollback button on what was rolled back).    *)
Render ==
  /\ dlgOpen /\ renders < MaxRenders /\ renders' = renders + 1
  /\ opener' \in {opener, FALSE}
  /\ Rerun(dlgBusy, IF focus = "opener" /\ ~opener' THEN "body" ELSE focus)
  /\ UNCHANGED <<dlgOpen, dlgBusy, dlgAck, wasBusy, opens>>

Check ==
  /\ dlgOpen /\ focus = "check" /\ dlgAck' = ~dlgAck
  /\ UNCHANGED <<dlgOpen, dlgBusy, opener, focus, previous, frame, wasBusy, opens, renders>>

(* Confirm disables everything but the checkbox, the opener included; the  *)
(* browser may drop the focus of an element that is disabled.              *)
Confirm ==
  /\ dlgOpen /\ focus = "confirm" /\ Enabled("confirm", dlgBusy, dlgAck)
  /\ dlgBusy' = TRUE /\ wasBusy' = TRUE
  /\ UNCHANGED opener
  /\ \E at \in {focus, "body"} : Rerun(TRUE, at)
  /\ UNCHANGED <<dlgOpen, dlgAck, opens, renders>>

(* The request failed: the dialog is usable again.                         *)
ConfirmFails ==
  /\ dlgOpen /\ dlgBusy /\ dlgBusy' = FALSE
  /\ UNCHANGED opener
  /\ Rerun(FALSE, focus)
  /\ UNCHANGED <<dlgOpen, dlgAck, wasBusy, opens, renders>>

(* The dialog goes away, by a click or Escape unless it is busy, or with   *)
(* the success of the request, behind which the deployment page is busy    *)
(* until it has loaded what the rollback did; the frame is cancelled.      *)
Close ==
  /\ dlgOpen /\ dlgOpen' = FALSE
  /\ frame' = FALSE
  /\ focus' = CleanUp(Able(FALSE, dlgBusy, opener), IF focus \in Inside THEN "body" ELSE focus)
  /\ UNCHANGED <<dlgAck, dlgBusy, opener, previous, wasBusy, opens, renders>>

(* The request and the loading behind it have ended.                       *)
RequestEnds ==
  /\ ~dlgOpen /\ dlgBusy /\ dlgBusy' = FALSE
  /\ UNCHANGED <<dlgOpen, dlgAck, opener, focus, previous, frame, wasBusy, opens, renders>>

(* Tab and Shift+Tab wrap at the ends; elsewhere the browser decides, and  *)
(* from outside it goes through the page.                                  *)
Move(back) ==
  LET list == Focusable
      at == {i \in DOMAIN list : list[i] = focus}
      step == IF back THEN -1 ELSE 1
  IN  IF at = {} THEN "page"
      ELSE list[(((CHOOSE i \in at : TRUE) - 1 + step + Len(list)) % Len(list)) + 1]

Tab(back) ==
  /\ dlgOpen /\ focus' = Move(back)
  /\ UNCHANGED <<dlgOpen, dlgBusy, dlgAck, opener, previous, frame, wasBusy, opens, renders>>

FocusNext ==
  \/ Open \/ Frame \/ Render \/ Check \/ Confirm \/ ConfirmFails \/ Close \/ RequestEnds
  \/ \E back \in BOOLEAN : Tab(back)

FocusSpec == FocusInit /\ [][FocusNext]_focusVars

-----------------------------------------------------------------------------
Places == Inside \union {"opener", "page", "body"}

FocusTypeOK ==
  /\ focus \in Places /\ previous \in Places
  /\ dlgOpen \in BOOLEAN /\ dlgBusy \in BOOLEAN /\ dlgAck \in BOOLEAN
  /\ opener \in BOOLEAN /\ frame \in BOOLEAN /\ wasBusy \in BOOLEAN
  /\ focus \in Inside => dlgOpen

(* The keyboard never leaves an idle dialog by Tab, whichever of its       *)
(* controls are enabled; only a render takes the focus outside, for the    *)
(* time of one frame (useDialogFocus.ts:25).                               *)
TabStaysInside ==
  [][(focus \in Inside) /\ ~dlgBusy /\ dlgOpen' /\ focus' \notin Inside =>
       frame' /\ (dlgBusy' \/ renders' > renders)]_focusVars

(* A dialog that was opened and closed without a request gives the focus   *)
(* back to the button that opened it, however its page was rendered        *)
(* meanwhile; if a render removed that button, as the page of a rolled     *)
(* back deployment does, the focus is somewhere outside the dialog.        *)
FocusReturns ==
  [][dlgOpen /\ ~dlgOpen' /\ ~wasBusy =>
       IF opener THEN focus' = "opener" ELSE focus' \notin Inside]_focusVars

(* The keyboard user never loses the place, inside the dialog or after it. *)
FocusIsManaged == TabStaysInside /\ FocusReturns
=============================================================================
