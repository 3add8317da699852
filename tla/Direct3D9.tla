------------------------------ MODULE Direct3D9 ------------------------------
(* The Direct3D 9 frontend (frontend_direct3d9/): device loss, the resources that
   have to be released for a Reset, the effects, and the dialog in which the user
   edits the stored effect.  The window drops the frontend and makes it anew; a dialog
   that is not closed then keeps the old frontend alive.  Everything runs in the main
   thread; one action is one call of the window or its host or one message of a dialog,
   with all the calls nested in it.
   Every Reset may fail because the device is lost, so a call has a set of results. *)
EXTENDS Naturals, Sequences

CONSTANTS Good,     \* effect sources that compile; an effect is named by its source
          Bad,      \* sources that do not
          Default,  \* the source in the resources
          Empty,    \* the empty text
          Null      \* no effect, or no stored source

ASSUME EffectAssumption ==
  Default \in Good /\ Good \cap Bad = {} /\ {Empty, Null} \cap (Good \cup Bad) = {}

VARIABLES
  up,      \* the window has this frontend
  fe,      \* the frontend, see Frontend; Gone without one
  conf,    \* the configuration string in the settings of the window
  dialog,  \* the configuration dialog of this frontend, see Dialog
  left     \* a dialog of an earlier frontend is open

vars == <<up, fe, conf, dialog, left>>

Text == Good \cup Bad \cup {Empty}

(* What the frontend copies from the callback object.  update_size sets "looks"
   (colours, cursor, replaygain, orientation, shade) as well. *)
Aspect == {"size", "looks", "data", "flip"}

(* device_lost; the aspects whose copy is older than the callback object's value;
   effect_stack, bottom first; effect_override. *)
Frontend == [lost : BOOLEAN, stale : SUBSET Aspect,
             stack : UNION {[1..n -> Good] : n \in 0..2}, override : Good \cup {Null}]

(* The window exists; text of the code box, not yet compiled (changed); fx; the
   apply button is enabled. *)
Dialog == [open : BOOLEAN, text : Text, changed : BOOLEAN, fx : Good \cup {Null},
           apply : BOOLEAN]

Gone == [lost |-> TRUE, stale |-> Aspect, stack |-> <<>>, override |-> Null]

Closed == [open |-> FALSE, text |-> Empty, changed |-> FALSE, fx |-> Null, apply |-> FALSE]

(* compile_fragment. *)
Compiled(text) == IF text \in Good THEN text ELSE Null

-----------------------------------------------------------------------------
(* Some definitions come after a variant of them with a plausible mistake; every
   property is checked to fail with one of them in place of the original. *)

(* release_default_resources. *)
Release(f) == [f EXCEPT !.stack = <<>>, !.override = Null]

(* create_default_resources: the fallback effect, then the stored one. *)
Create(f) ==
  [f EXCEPT !.stack = @ \o <<Default>> \o
                      IF Compiled(conf) = Null THEN <<>> ELSE <<conf>>]

ResetFailed(f) == [Release(f) EXCEPT !.lost = TRUE]
ResetDone(f) == [Create(Release(f)) EXCEPT !.stale = @ \ {"size", "looks"}]

(* update_size while the device is not known to be lost. *)
Resize(f) == {ResetFailed(f), ResetDone(f)}

(* on_state_changed after update_size; update_data does nothing on a lost device. *)
Copy(aspects, f) ==
  [f EXCEPT !.stale = @ \ ((aspects \ {"size"}) \ (IF f.lost THEN {"data"} ELSE {}))]

RecoverQuietly(f) == {ResetFailed(f), [ResetDone(f) EXCEPT !.lost = FALSE]}

(* update_size on a lost device: if Reset succeeds, on_state_changed with all bits
   makes up for the changes that were ignored, and resets the device once more. *)
Recover(f) ==
  {ResetFailed(f)} \cup
  {Copy(Aspect, g) : g \in Resize([ResetDone(f) EXCEPT !.lost = FALSE])}

update_size(f) == IF f.lost THEN Recover(f) ELSE Resize(f)

device_still_lost(f) == IF f.lost THEN update_size(f) ELSE {f}

on_state_changed(aspects, f) ==
  UNION {IF g.lost THEN {g}
         ELSE {Copy(aspects, h) : h \in IF "size" \in aspects THEN update_size(g) ELSE {g}} :
         g \in device_still_lost(f)}

(* The three calls of on_wm_paint; Present may report the loss. *)
Painted(f) ==
  LET drawn == UNION {device_still_lost(g) : g \in device_still_lost(f)}
  IN  drawn \cup UNION {update_size([g EXCEPT !.lost = TRUE]) : g \in drawn}

-----------------------------------------------------------------------------
Init ==
  /\ up = FALSE /\ fe = Gone /\ dialog = Closed /\ left = FALSE
  /\ conf \in Text \cup {Null}

(* initialize_frontend: the constructor leaves device_lost uninitialised. *)
Start ==
  /\ ~up /\ up' = TRUE
  /\ \E lost \in BOOLEAN :
       fe' \in on_state_changed(Aspect, Create([Gone EXCEPT !.lost = lost]))
  /\ UNCHANGED <<conf, dialog, left>>

(* The window changes the callback object and tells the frontend. *)
Change(aspects) ==
  /\ up /\ fe' \in on_state_changed(aspects, [fe EXCEPT !.stale = @ \cup aspects])
  /\ UNCHANGED <<up, conf, dialog, left>>

Paint == up /\ fe' \in Painted(fe) /\ UNCHANGED <<up, conf, dialog, left>>

-----------------------------------------------------------------------------
(* The dialog.  A change of the text posts a message to the dialog; posted messages
   are handled before the next input of the user. *)
Input == dialog.open /\ ~dialog.changed

StoredText == IF conf = Null THEN Empty ELSE conf

(* show_configuration and on_wm_init_dialog. *)
OpenDialog ==
  /\ up /\ ~dialog.open
  /\ dialog' = [Closed EXCEPT !.open = TRUE, !.text = StoredText, !.changed = TRUE]
  /\ UNCHANGED <<up, fe, conf, left>>

Edit(text) ==
  /\ Input /\ text # dialog.text
  /\ dialog' = [dialog EXCEPT !.text = text, !.changed = TRUE]
  /\ UNCHANGED <<up, fe, conf, left>>

(* on_effect_source_change: an empty text is not compiled and changes nothing. *)
SourceChange ==
  /\ dialog.open /\ dialog.changed
  /\ IF dialog.text = Empty
     THEN dialog' = [dialog EXCEPT !.changed = FALSE] /\ UNCHANGED fe
     ELSE LET fx == Compiled(dialog.text)
          IN  /\ dialog' = [dialog EXCEPT !.changed = FALSE, !.fx = fx, !.apply = fx # Null]
              /\ fe' = [fe EXCEPT !.override = fx]
  /\ UNCHANGED <<up, conf, left>>

(* set_effect(fx, true). *)
Push(stack, fx) ==
  (IF Len(stack) > 1 THEN SubSeq(stack, 1, Len(stack) - 1) ELSE stack) \o <<fx>>

ApplyUnsaved ==
  /\ Input /\ dialog.apply
  /\ fe' = [fe EXCEPT !.stack = Push(@, dialog.fx)]
  /\ dialog' = [dialog EXCEPT !.apply = FALSE]
  /\ UNCHANGED <<up, conf, left>>

(* on_effect_apply_click. *)
ApplyClick ==
  /\ Input /\ dialog.apply
  /\ fe' = [fe EXCEPT !.stack = Push(@, dialog.fx)]
  /\ conf' = dialog.text
  /\ dialog' = [dialog EXCEPT !.apply = FALSE]
  /\ UNCHANGED <<up, left>>

(* on_effect_default_click: the text is compiled at once, and again later. *)
DefaultClick ==
  /\ Input
  /\ dialog' = [dialog EXCEPT !.text = Default, !.changed = TRUE, !.fx = Default,
                              !.apply = TRUE]
  /\ fe' = [fe EXCEPT !.override = Default]
  /\ UNCHANGED <<up, conf, left>>

(* on_effect_reset_click. *)
ResetClick ==
  /\ Input
  /\ dialog' = [dialog EXCEPT !.text = StoredText, !.changed = TRUE, !.apply = FALSE]
  /\ UNCHANGED <<up, fe, conf, left>>

(* on_wm_close or close_configuration: the effect that was tried out stays. *)
CloseDialog ==
  /\ dialog.open /\ dialog' = Closed
  /\ UNCHANGED <<up, fe, conf, left>>

-----------------------------------------------------------------------------
(* The window and its host.  flush_frontend drops the frontend and asks for a paint,
   which makes the next one. *)
FlushNothing == UNCHANGED <<up, fe, dialog>>

Flush == up' = FALSE /\ fe' = Gone /\ dialog' = Closed

(* on_frontend_select closes the dialog before it flushes. *)
SelectFrontend == up /\ Flush /\ UNCHANGED <<conf, left>>

(* seekbar_dui::set_configuration does not close it; a text the settings do not have
   is kept. *)
SetConfiguration(text) ==
  /\ conf' = text /\ Flush
  /\ left' = (left \/ dialog.open)

(* The strings are taken over before the last setting, which may be missing: then
   there is no flush. *)
SetConfigurationFails(text) == conf' = text /\ UNCHANGED <<up, fe, dialog, left>>

(* on_wm_destroy; the dialogs belong to the top-level window, which may stay. *)
WindowDestroyed ==
  /\ Flush /\ left' \in {left \/ dialog.open, FALSE}
  /\ UNCHANGED conf

(* on_effect_apply_click of a dialog that was left over: the effect goes to a frontend
   that no longer draws, the text to the settings. *)
LeftApply(text) ==
  /\ left /\ conf' = text
  /\ UNCHANGED <<up, fe, dialog, left>>

(* One of several, perhaps. *)
CloseLeft == left /\ left' \in BOOLEAN /\ UNCHANGED <<up, fe, conf, dialog>>

Next ==
  \/ Start \/ Paint \/ \E aspects \in SUBSET Aspect : Change(aspects)
  \/ OpenDialog \/ SourceChange \/ ApplyClick \/ DefaultClick \/ ResetClick \/ CloseDialog
  \/ SelectFrontend \/ WindowDestroyed \/ CloseLeft
  \/ \E text \in Good \cup {Empty} : LeftApply(text)
  \/ \E text \in Text :
       Edit(text) \/ SetConfiguration(text) \/ SetConfigurationFails(text)
  \/ SetConfiguration(conf)

Spec == Init /\ [][Next]_vars

-----------------------------------------------------------------------------
(* There are never more than two effects on the stack, and a frontend that does not
   take its device for lost has one to draw with and has copied everything the
   callback object says: what changed while the device was lost, in the middle of a
   call or because device_lost was never initialised, has been made up for. *)
ReadyUnlessLost ==
  /\ fe \in Frontend /\ dialog \in Dialog /\ {up, left} \subseteq BOOLEAN
  /\ ~fe.lost => fe.stack # <<>> /\ fe.stale = {}

(* The frontend has the stored effect on top of its stack, or the default if that does
   not compile; it is what is drawn unless an effect was tried out, which then stays,
   also when the dialog is closed, until the resources are released. *)
StoredEffect == IF Compiled(conf) = Null THEN Default ELSE conf
EffectInSync == fe.lost \/ fe.stack[Len(fe.stack)] = StoredEffect

(* That is so from the first frontend on and stays so whatever is done with devices,
   dialogs, windows and settings, unless (1) a dialog is applied whose frontend is no
   longer the window's, (2) settings are taken over in part, without a new frontend, or
   (3) a text is applied that was emptied: that is stored, and the effect compiled before
   it was emptied goes on the stack.  Then it is so again as soon as anything else
   changes the stored text or the stack, as every Reset and new frontend does. *)
EmptyApplied == ApplyClick /\ dialog.text = Empty
OutOfSync ==
  \/ \E text \in Text : LeftApply(text) \/ SetConfigurationFails(text)
  \/ EmptyApplied
SyncKept ==
  \/ EffectInSync' \/ OutOfSync
  \/ ~EffectInSync /\ conf' = conf /\ fe'.stack = fe.stack
AppliedIsDrawn == EffectInSync /\ [][SyncKept]_vars
==============================================================================
