--------------------------- MODULE Direct3D9Proofs ---------------------------
(* What holds of the Direct3D 9 frontend for any effects, however often the device
   is lost and a Reset fails. *)
EXTENDS Direct3D9, SequenceTheorems, TLAPS

Stack == UNION {[1..n -> Good] : n \in 0..2}

(* Whatever is being tried out: the stack is what create_default_resources makes. *)
Drawable(f) ==
  /\ f.stack # << >>
  /\ f.stack[Len(f.stack)] = StoredEffect
Ready(f) ==
  /\ f \in Frontend
  /\ ~f.lost => Drawable(f) /\ f.stale = {}

(* The same without the stored effect, and what a call that turns f into g may do to
   the stack. *)
Sound(f) ==
  /\ f \in Frontend
  /\ ~f.lost => f.stack # << >> /\ f.stale = {}
Kept(f, g) ==
  \/ g.lost \/ g.stack[Len(g.stack)] = StoredEffect
  \/ ~f.lost /\ g.stack = f.stack

(* What the apply button would push is the text in the box, once that has been
   compiled, or what it held before it was emptied. *)
DialogInv ==
  /\ dialog \in Dialog
  /\ dialog.apply => dialog.fx # Null
  /\ dialog.apply /\ ~dialog.changed => dialog.text \in {dialog.fx, Empty}

DeviceInv ==
  /\ {up, left} \subseteq BOOLEAN /\ conf \in Text \cup {Null}
  /\ DialogInv /\ Sound(fe)

-----------------------------------------------------------------------------
LEMMA StackIsSeq ==
  ASSUME NEW s \in Stack
  PROVE  s \in Seq(Good) /\ Len(s) \in 0..2
<1>1. PICK n \in 0..2 : s \in [1..n -> Good]
  BY DEF Stack
<1> QED
  BY <1>1

LEMMA StackIs == Stack = {s \in Seq(Good) : Len(s) \in 0..2}
<1>1. \A s \in Stack : s \in Seq(Good) /\ Len(s) \in 0..2
  BY StackIsSeq
<1>2. ASSUME NEW s \in Seq(Good), Len(s) \in 0..2 PROVE s \in Stack
  <2>1. s \in [1..Len(s) -> Good]
    BY LenProperties
  <2> QED
    BY <1>2, <2>1 DEF Stack
<1> QED
  BY <1>1, <1>2

LEMMA EmptyStack == << >> \in Stack
<1>1. << >> \in Seq(Good) /\ Len(<< >>) = 0
  BY EmptySeq
<1> QED
  BY <1>1, StackIs

LEMMA CompiledOK ==
  /\ \A t : Compiled(t) \in Good \cup {Null}
  /\ \A t : Compiled(t) # Null => Compiled(t) = t /\ t \in Good
  /\ \A t \in Good : Compiled(t) = t /\ t # Null
BY EffectAssumption DEF Compiled

(* The effects that create_default_resources pushes. *)
LEMMA CreatedStack ==
  ASSUME NEW e, e = << >> \o <<Default>> \o
                    IF Compiled(conf) = Null THEN << >> ELSE <<conf>>
  PROVE  e \in Stack /\ e # << >> /\ e[Len(e)] = StoredEffect
<1> DEFINE saved == IF Compiled(conf) = Null THEN << >> ELSE <<conf>>
<1>1. <<Default>> \in Seq(Good) /\ Len(<<Default>>) = 1 /\ <<Default>>[1] = Default
  BY EffectAssumption
<1>2. << >> \o <<Default>> = <<Default>>
  BY <1>1, ConcatEmptySeq
<1>3. CASE Compiled(conf) = Null
  <2>1. e = <<Default>>
    BY <1>1, <1>2, <1>3, ConcatEmptySeq
  <2> QED
    BY <1>1, <1>3, <2>1, StackIs DEF StoredEffect
<1>4. CASE Compiled(conf) # Null
  <2>1. conf \in Good
    BY <1>4, CompiledOK
  <2>2. <<conf>> \in Seq(Good) /\ Len(<<conf>>) = 1 /\ <<conf>>[1] = conf
    BY <2>1
  <2>3. e = <<Default>> \o <<conf>>
    BY <1>2, <1>4
  <2>4. e \in Seq(Good) /\ Len(e) = 2 /\ e[2] = conf
    BY <1>1, <2>2, <2>3, ConcatProperties
  <2>5. e # << >>
    BY <2>4, EmptySeq
  <2> QED
    BY <1>4, <2>4, <2>5, StackIs DEF StoredEffect
<1> QED
  BY <1>3, <1>4

LEMMA CreateDraws ==
  ASSUME NEW f \in Frontend, f.stack = << >>
  PROVE  /\ Create(f) \in Frontend /\ Drawable(Create(f))
         /\ Create(f).lost = f.lost /\ Create(f).stale = f.stale
<1>1. /\ Create(f).stack = << >> \o <<Default>> \o
                           IF Compiled(conf) = Null THEN << >> ELSE <<conf>>
      /\ Create(f).lost = f.lost /\ Create(f).stale = f.stale
      /\ Create(f).override = f.override
      /\ Create(f) = [f EXCEPT !.stack = Create(f).stack]
  BY DEF Create, Frontend
<1>2. Create(f).stack \in Stack /\ Drawable(Create(f))
  BY <1>1, CreatedStack DEF Drawable
<1> QED
  BY <1>1, <1>2 DEF Frontend, Stack

(* What is left after a Reset that failed, and after one that did not. *)
LEMMA ResetFailedOK ==
  ASSUME NEW f \in Frontend
  PROVE  ResetFailed(f) \in Frontend /\ ResetFailed(f).lost
<1>1. << >> \in Stack
  BY EmptyStack
<1> QED
  BY <1>1 DEF ResetFailed, Release, Frontend, Stack

LEMMA ResetDoneOK ==
  ASSUME NEW f \in Frontend
  PROVE  /\ ResetDone(f) \in Frontend /\ Drawable(ResetDone(f))
         /\ ResetDone(f).lost = f.lost
         /\ ResetDone(f).stale = f.stale \ {"size", "looks"}
<1>1. << >> \in Stack
  BY EmptyStack
<1>2. /\ Release(f) \in Frontend /\ Release(f).stack = << >>
      /\ Release(f).lost = f.lost /\ Release(f).stale = f.stale
  BY <1>1 DEF Release, Frontend, Stack
<1>3. PICK g : g = Create(Release(f))
  OBVIOUS
<1>4. g \in Frontend /\ Drawable(g) /\ g.lost = f.lost /\ g.stale = f.stale
  BY <1>2, <1>3, CreateDraws
<1>5. ResetDone(f) = [g EXCEPT !.stale = @ \ {"size", "looks"}]
  BY <1>3 DEF ResetDone
<1> QED
  BY <1>4, <1>5 DEF Frontend, Drawable

(* Copying aspects from the callback object. *)
LEMMA CopyOK ==
  ASSUME NEW f \in Frontend, NEW aspects \in SUBSET Aspect
  PROVE  /\ Copy(aspects, f) \in Frontend
         /\ Copy(aspects, f).lost = f.lost /\ Copy(aspects, f).stack = f.stack
         /\ ~f.lost => Copy(aspects, f).stale = f.stale \ (aspects \ {"size"})
BY DEF Copy, Frontend

(* A device that was lost is either still lost, or everything is as it should be. *)
LEMMA RecoverOK ==
  ASSUME NEW f \in Frontend, NEW g \in Recover(f)
  PROVE  Ready(g)
<1>1. CASE g = ResetFailed(f)
  BY <1>1, ResetFailedOK DEF Ready
<1>2. ASSUME NEW h \in Resize([ResetDone(f) EXCEPT !.lost = FALSE]), g = Copy(Aspect, h)
      PROVE  Ready(g)
  <2>1. PICK d : d = [ResetDone(f) EXCEPT !.lost = FALSE]
    OBVIOUS
  <2>2. d \in Frontend /\ ~d.lost /\ d.stale \subseteq Aspect
    BY <2>1, ResetDoneOK DEF Frontend
  <2>3. CASE h = ResetFailed(d)
    BY <1>2, <2>2, <2>3, ResetFailedOK, CopyOK DEF Ready
  <2>4. CASE h = ResetDone(d)
    <3>1. h \in Frontend /\ Drawable(h) /\ ~h.lost /\ h.stale = d.stale \ {"size", "looks"}
      BY <2>2, <2>4, ResetDoneOK
    <3>2. /\ g \in Frontend /\ ~g.lost /\ g.stack = h.stack
          /\ g.stale = h.stale \ (Aspect \ {"size"})
      BY <1>2, <3>1, CopyOK
    <3>3. g.stale = {}
      BY <2>2, <3>1, <3>2 DEF Aspect
    <3> QED
      BY <3>1, <3>2, <3>3 DEF Ready, Drawable
  <2> QED
    BY <1>2, <2>1, <2>3, <2>4 DEF Resize
<1> QED
  BY <1>1, <1>2 DEF Recover

LEMMA StillLostOK ==
  ASSUME NEW f \in Frontend, NEW g \in device_still_lost(f)
  PROVE  IF f.lost THEN Ready(g) ELSE g = f
BY RecoverOK DEF device_still_lost, update_size

LEMMA ResizeOK ==
  ASSUME NEW f \in Frontend, ~f.lost, NEW g \in update_size(f)
  PROVE  /\ g \in Frontend
         /\ ~g.lost => Drawable(g) /\ g.stale = f.stale \ {"size", "looks"}
BY ResetFailedOK, ResetDoneOK DEF update_size, Resize

(* A call of on_state_changed that names all that has changed leaves nothing out, and
   keeps the stack or makes it anew. *)
LEMMA StateChangedOK ==
  ASSUME NEW f \in Frontend, NEW aspects \in SUBSET Aspect,
         ~f.lost => f.stack # << >> /\ f.stale \subseteq aspects,
         NEW g \in on_state_changed(aspects, f)
  PROVE  Sound(g) /\ Kept(f, g)
<1>1. PICK d \in device_still_lost(f) :
        g \in IF d.lost THEN {d}
              ELSE {Copy(aspects, h) :
                      h \in IF "size" \in aspects THEN update_size(d) ELSE {d}}
  BY DEF on_state_changed
<1>2. /\ d \in Frontend /\ Kept(f, d)
      /\ ~d.lost => d.stack # << >> /\ d.stale \subseteq aspects
  BY StillLostOK DEF Ready, Drawable, Kept
<1>3. CASE d.lost
  BY <1>1, <1>2, <1>3 DEF Sound
<1>4. ASSUME ~d.lost,
             NEW h \in IF "size" \in aspects THEN update_size(d) ELSE {d},
             g = Copy(aspects, h)
      PROVE  Sound(g) /\ Kept(f, g)
  <2>1. /\ h \in Frontend /\ Kept(f, h)
        /\ ~h.lost => /\ h.stack # << >> /\ h.stale \subseteq aspects
                      /\ "size" \in aspects => "size" \notin h.stale
    BY <1>2, <1>4, ResizeOK DEF Drawable, Kept
  <2>2. /\ g \in Frontend /\ g.lost = h.lost /\ g.stack = h.stack
        /\ ~h.lost => g.stale = h.stale \ (aspects \ {"size"})
    BY <1>4, <2>1, CopyOK
  <2>3. ~h.lost => g.stale = {}
    BY <2>1, <2>2
  <2> QED
    BY <2>1, <2>2, <2>3 DEF Sound, Kept
<1> QED
  BY <1>1, <1>3, <1>4

LEMMA PaintedOK ==
  ASSUME NEW f, Sound(f), NEW g \in Painted(f)
  PROVE  Sound(g) /\ Kept(f, g)
<1> DEFINE drawn == UNION {device_still_lost(d) : d \in device_still_lost(f)}
<1>1. ASSUME NEW d, Ready(d) PROVE \A h \in device_still_lost(d) : Ready(h)
  BY <1>1, StillLostOK DEF Ready
<1>2. \A h \in drawn : Sound(h) /\ Kept(f, h)
  <2>1. CASE f.lost
    <3>1. \A d \in device_still_lost(f) : Ready(d)
      BY <2>1, StillLostOK DEF Sound
    <3>2. \A h \in drawn : Ready(h)
      BY <1>1, <3>1
    <3> QED
      BY <3>2 DEF Ready, Drawable, Sound, Kept
  <2>2. CASE ~f.lost
    <3>1. device_still_lost(f) = {f}
      BY <2>2 DEF device_still_lost
    <3>2. \A h \in drawn : h = f
      BY <3>1
    <3> QED
      BY <2>2, <3>2 DEF Kept
  <2> QED
    BY <2>1, <2>2
<1>3. ASSUME NEW h \in drawn, g \in update_size([h EXCEPT !.lost = TRUE])
      PROVE  Sound(g) /\ Kept(f, g)
  <2>1. [h EXCEPT !.lost = TRUE] \in Frontend /\ [h EXCEPT !.lost = TRUE].lost
    BY <1>2 DEF Sound, Frontend
  <2>2. Ready(g)
    BY <1>3, <2>1, RecoverOK DEF update_size
  <2> QED
    BY <2>2 DEF Ready, Drawable, Sound, Kept
<1> QED
  BY <1>2, <1>3 DEF Painted

-----------------------------------------------------------------------------
(* set_effect replaces what lies above the bottom of the stack. *)
LEMMA PushOK ==
  ASSUME NEW s \in Stack, NEW fx \in Good
  PROVE  Push(s, fx) \in Stack /\ Push(s, fx) # << >> /\ Push(s, fx)[Len(Push(s, fx))] = fx
<1>1. s \in Seq(Good) /\ Len(s) \in 0..2
  BY StackIsSeq
<1>2. <<fx>> \in Seq(Good) /\ Len(<<fx>>) = 1 /\ <<fx>>[1] = fx
  OBVIOUS
<1>3. PICK low : low = IF Len(s) > 1 THEN SubSeq(s, 1, Len(s) - 1) ELSE s
  OBVIOUS
<1>4. low \in Seq(Good) /\ Len(low) \in 0..1
  <2>1. CASE Len(s) > 1
    <3>1. \A i \in 1..(Len(s) - 1) : s[i] \in Good
      BY <1>1, ElementOfSeq
    <3>2. /\ SubSeq(s, 1, Len(s) - 1) \in Seq(Good)
          /\ Len(SubSeq(s, 1, Len(s) - 1)) = Len(s) - 1
      BY <1>1, <2>1, <3>1, SubSeqProperties
    <3> QED
      BY <1>1, <1>3, <2>1, <3>2
  <2>2. CASE ~(Len(s) > 1)
    BY <1>1, <1>3, <2>2
  <2> QED
    BY <2>1, <2>2
<1>5. PICK e : e = low \o <<fx>>
  OBVIOUS
<1>6. e \in Seq(Good) /\ Len(e) = Len(low) + 1 /\ e[Len(e)] = fx
  BY <1>2, <1>4, <1>5, ConcatProperties
<1>7. e # << >>
  BY <1>4, <1>6, EmptySeq
<1>8. e \in Stack
  <2>1. PICK n \in 0..1 : n = Len(low)
    BY <1>4
  <2>2. Len(e) = n + 1 /\ n + 1 \in 0..2
    BY <1>6, <2>1
  <2> QED
    BY <1>6, <2>2, StackIs
<1> QED
  BY <1>3, <1>5, <1>6, <1>7, <1>8 DEF Push

LEMMA GoneOK == Gone \in Frontend /\ Gone.lost /\ Closed \in Dialog /\ ~Closed.apply
<1>1. << >> \in Stack
  BY EmptyStack
<1> QED
  BY <1>1 DEF Gone, Closed, Frontend, Dialog, Stack, Text

LEMMA InitDeviceInv == Init => DeviceInv /\ EffectInSync
BY GoneOK DEF Init, DeviceInv, DialogInv, Sound, EffectInSync

(* A call that keeps the stack or makes it anew keeps it in sync. *)
LEMMA KeptInSync ==
  ASSUME Kept(fe, fe'), conf' = conf
  PROVE  SyncKept
BY DEF Kept, SyncKept, EffectInSync, StoredEffect

LEMMA StackUntouched ==
  ASSUME fe'.stack = fe.stack, fe'.lost = fe.lost, conf' = conf
  PROVE  SyncKept
BY DEF SyncKept, EffectInSync, StoredEffect

LEMMA StartSafe ==
  ASSUME DeviceInv, Start
  PROVE  DeviceInv' /\ SyncKept
<1>1. PICK lost \in BOOLEAN :
        fe' \in on_state_changed(Aspect, Create([Gone EXCEPT !.lost = lost]))
  BY DEF Start
<1>2. PICK f : f = [Gone EXCEPT !.lost = lost]
  OBVIOUS
<1>3. f \in Frontend /\ f.stack = << >>
  BY <1>2, GoneOK DEF Gone, Frontend
<1>4. Create(f) \in Frontend /\ Drawable(Create(f)) /\ Create(f).stale \subseteq Aspect
  BY <1>3, CreateDraws DEF Frontend
<1>5. PICK c \in Frontend : c = Create(f)
  BY <1>4
<1>6. Sound(fe') /\ Kept(c, fe')
  BY <1>1, <1>2, <1>4, <1>5, StateChangedOK DEF Drawable
<1>7. EffectInSync'
  BY <1>4, <1>5, <1>6 DEF Kept, Drawable, EffectInSync, StoredEffect, Start
<1>8. DeviceInv'
  BY <1>6 DEF DeviceInv, DialogInv, Start, Sound
<1> QED
  BY <1>7, <1>8 DEF SyncKept

LEMMA WindowSafe ==
  ASSUME DeviceInv, Paint \/ \E aspects \in SUBSET Aspect : Change(aspects)
  PROVE  DeviceInv' /\ SyncKept
<1>1. UNCHANGED <<up, conf, dialog, left>>
  BY DEF Paint, Change
<1>2. Sound(fe') /\ Kept(fe, fe')
  <2>1. CASE Paint
    BY <2>1, PaintedOK DEF Paint, DeviceInv
  <2>2. ASSUME NEW aspects \in SUBSET Aspect, Change(aspects)
        PROVE  Sound(fe') /\ Kept(fe, fe')
    <3>1. PICK f : f = [fe EXCEPT !.stale = @ \cup aspects]
      OBVIOUS
    <3>2. /\ f \in Frontend /\ f.lost = fe.lost /\ f.stack = fe.stack
          /\ ~f.lost => f.stack # << >> /\ f.stale \subseteq aspects
      BY <3>1 DEF DeviceInv, Sound, Frontend
    <3>3. Sound(fe') /\ Kept(f, fe')
      BY <2>2, <3>1, <3>2, StateChangedOK DEF Change
    <3> QED
      BY <3>2, <3>3 DEF Kept
  <2> QED
    BY <2>1, <2>2
<1>3. DialogInv' /\ Sound(fe)'
  BY <1>1, <1>2 DEF DialogInv, DeviceInv, Sound
<1> QED
  BY <1>1, <1>2, <1>3, KeptInSync DEF DeviceInv

(* The dialog tries effects out without touching the stack. *)
LEMMA TryingKeepsSound ==
  ASSUME Sound(fe), NEW fx \in Good \cup {Null}, fe' = [fe EXCEPT !.override = fx]
  PROVE  Sound(fe)' /\ fe'.stack = fe.stack /\ fe'.lost = fe.lost
BY DEF Sound, Frontend

LEMMA DialogSafe ==
  ASSUME DeviceInv,
         \/ OpenDialog \/ ResetClick \/ CloseDialog \/ SourceChange \/ DefaultClick
         \/ \E text \in Text : Edit(text)
  PROVE  DeviceInv' /\ SyncKept
<1> USE DEF DeviceInv
<1>1. StoredText \in Text /\ Default \in Good \cup {Null} /\ Default \in Text /\ Default # Null
  BY EffectAssumption DEF StoredText, Text
<1>2. /\ UNCHANGED <<up, conf, left>> /\ DialogInv'
      /\ fe' = fe \/ \E fx \in Good \cup {Null} : fe' = [fe EXCEPT !.override = fx]
  <2>1. CASE OpenDialog \/ CloseDialog
    <3>1. /\ UNCHANGED <<up, fe, conf, left>>
          /\ dialog' \in Dialog /\ ~dialog'.apply
      BY <1>1, <2>1, GoneOK DEF OpenDialog, CloseDialog, Dialog
    <3> QED
      BY <3>1 DEF DialogInv
  <2>2. CASE ResetClick \/ \E text \in Text : Edit(text)
    BY <1>1, <2>2 DEF ResetClick, Edit, DialogInv, Dialog
  <2>3. CASE DefaultClick
    BY <1>1, <2>3 DEF DefaultClick, DialogInv, Dialog
  <2>4. CASE SourceChange /\ dialog.text = Empty
    BY <2>4 DEF SourceChange, DialogInv, Dialog
  <2>5. CASE SourceChange /\ dialog.text # Empty
    <3>1. PICK fx : fx = Compiled(dialog.text)
      OBVIOUS
    <3>2. fx \in Good \cup {Null} /\ (fx # Null => fx = dialog.text)
      BY <3>1, CompiledOK
    <3>3. /\ dialog' = [dialog EXCEPT !.changed = FALSE, !.fx = fx, !.apply = fx # Null]
          /\ fe' = [fe EXCEPT !.override = fx] /\ UNCHANGED <<up, conf, left>>
      BY <2>5, <3>1 DEF SourceChange
    <3> QED
      BY <3>2, <3>3 DEF DialogInv, Dialog
  <2> QED
    BY <2>1, <2>2, <2>3, <2>4, <2>5
<1>3. Sound(fe)' /\ fe'.stack = fe.stack /\ fe'.lost = fe.lost
  BY <1>2, TryingKeepsSound DEF Sound
<1> QED
  BY <1>2, <1>3, StackUntouched

(* What is stored is what is pushed, if it was not emptied. *)
LEMMA ApplySafe ==
  ASSUME DeviceInv, ApplyClick
  PROVE  DeviceInv' /\ SyncKept
<1> USE DEF DeviceInv
<1>1. /\ dialog.apply /\ ~dialog.changed /\ dialog.text \in Text
      /\ dialog.fx \in Good /\ dialog.text \in {dialog.fx, Empty}
  BY DEF ApplyClick, Input, DialogInv, Dialog
<1>2. /\ conf' = dialog.text /\ dialog' = [dialog EXCEPT !.apply = FALSE]
      /\ fe' = [fe EXCEPT !.stack = Push(fe.stack, dialog.fx)]
      /\ UNCHANGED <<up, left>>
  BY DEF ApplyClick
<1>3. DialogInv'
  BY <1>2 DEF DialogInv, Dialog
<1>4. PICK s : s = Push(fe.stack, dialog.fx)
  OBVIOUS
<1>5. s \in Stack /\ s # << >> /\ s[Len(s)] = dialog.fx
  BY <1>1, <1>4, PushOK DEF Sound, Frontend, Stack
<1>6. /\ fe' \in Frontend /\ fe'.stack = s /\ fe'.lost = fe.lost /\ fe'.stale = fe.stale
  BY <1>2, <1>4, <1>5 DEF Sound, Frontend, Stack
<1>7. Sound(fe)'
  BY <1>5, <1>6 DEF Sound
<1>8. dialog.text # Empty => EffectInSync'
  <2>1. ASSUME dialog.text # Empty PROVE StoredEffect' = dialog.fx
    BY <1>1, <1>2, <2>1, CompiledOK DEF StoredEffect, Compiled
  <2> QED
    BY <1>5, <1>6, <2>1 DEF EffectInSync
<1>9. SyncKept
  BY <1>8 DEF SyncKept, OutOfSync, EmptyApplied
<1> QED
  BY <1>1, <1>2, <1>3, <1>7, <1>9

(* Whoever drops the frontend leaves nothing of it. *)
LEMMA FlushSafe ==
  ASSUME DeviceInv, Flush, conf' \in Text \cup {Null}, left' \in BOOLEAN
  PROVE  DeviceInv' /\ SyncKept
BY GoneOK DEF Flush, DeviceInv, DialogInv, Sound, SyncKept, EffectInSync

(* The frontend does not hear of these. *)
LEMMA UnheardSafe ==
  ASSUME DeviceInv, UNCHANGED <<up, fe, dialog>>,
         conf' \in Text \cup {Null}, left' \in BOOLEAN,
         OutOfSync \/ conf' = conf
  PROVE  DeviceInv' /\ SyncKept
<1>1. DeviceInv'
  BY DEF DeviceInv, DialogInv, Sound
<1>2. SyncKept
  BY StackUntouched DEF SyncKept
<1> QED
  BY <1>1, <1>2

LEMMA HostSafe ==
  ASSUME DeviceInv,
         \/ SelectFrontend \/ WindowDestroyed \/ CloseLeft
         \/ \E text \in Good \cup {Empty} : LeftApply(text)
         \/ \E text \in Text : SetConfiguration(text) \/ SetConfigurationFails(text)
         \/ SetConfiguration(conf)
  PROVE  DeviceInv' /\ SyncKept
<1>1. /\ conf \in Text \cup {Null} /\ left \in BOOLEAN /\ dialog.open \in BOOLEAN
      /\ Good \cup {Empty} \subseteq Text
  BY DEF DeviceInv, DialogInv, Dialog, Text
<1>2. CASE SelectFrontend \/ WindowDestroyed
  BY <1>1, <1>2, FlushSafe DEF SelectFrontend, WindowDestroyed
<1>3. ASSUME NEW text \in Text \cup {conf}, SetConfiguration(text)
      PROVE  DeviceInv' /\ SyncKept
  BY <1>1, <1>3, FlushSafe DEF SetConfiguration
<1>4. CASE CloseLeft
  BY <1>1, <1>4, UnheardSafe DEF CloseLeft
<1>5. ASSUME NEW text \in Text, LeftApply(text) \/ SetConfigurationFails(text)
      PROVE  DeviceInv' /\ SyncKept
  <2>1. OutOfSync
    BY <1>5 DEF OutOfSync
  <2> QED
    BY <1>1, <1>5, <2>1, UnheardSafe DEF LeftApply, SetConfigurationFails
<1> QED
  BY <1>1, <1>2, <1>3, <1>4, <1>5

LEMMA NextSafe == DeviceInv /\ [Next]_vars => DeviceInv' /\ [SyncKept]_vars
<1> SUFFICES ASSUME DeviceInv, [Next]_vars PROVE DeviceInv' /\ [SyncKept]_vars
  OBVIOUS
<1>1. CASE UNCHANGED vars
  BY <1>1 DEF DeviceInv, DialogInv, Sound, vars
<1> QED
  BY <1>1, StartSafe, WindowSafe, DialogSafe, ApplySafe, HostSafe DEF Next

LEMMA DeviceInvAlways == Spec => []DeviceInv
<1>1. Init => DeviceInv
  BY InitDeviceInv
<1>2. DeviceInv /\ [Next]_vars => DeviceInv'
  BY NextSafe
<1> QED
  BY <1>1, <1>2, PTL DEF Spec

(* There are at most two effects on the stack, and a frontend that does not take its
   device for lost has an effect to draw with and has copied all that the window has
   told it of, also what on_state_changed ignored while the device was lost. *)
THEOREM ReadyOrLost == Spec => []ReadyUnlessLost
<1>1. DeviceInv => ReadyUnlessLost
  BY DEF DeviceInv, Sound, DialogInv, ReadyUnlessLost
<1> QED
  BY <1>1, DeviceInvAlways, PTL

(* On top of the stack, and so drawn if no effect has been tried out since the last
   reset, is the stored effect, or the default if that does not compile, after any
   number of lost devices, resets, new frontends and dialogs, and of settings from the
   host (create_default_resources, on_effect_apply_click, set_configuration).  Only the
   three steps that OutOfSync names lead out of that, and any other step that changes
   the stored text or the stack leads back. *)
THEOREM StoredEffectIsDrawn == Spec => AppliedIsDrawn
<1>1. Init => EffectInSync
  BY InitDeviceInv
<1>2. DeviceInv /\ [Next]_vars => [SyncKept]_vars
  BY NextSafe
<1> QED
  BY <1>1, <1>2, DeviceInvAlways, PTL DEF Spec, AppliedIsDrawn
=============================================================================
