--------------------------- MODULE AdminDeskProofs ---------------------------
(***************************************************************************)
(* For any editable fields, any number of messages and events: a dialogue  *)
(* that has the administrator's chat to itself keeps its answers, and      *)
(* every text is then stored as the answer to the question asked last.     *)
(***************************************************************************)
EXTENDS AdminDesk, TLAPS

-----------------------------------------------------------------------------
(* The steps of a registration, the fields of an edit, and the screens.    *)

LEMMA NineSteps ==
    ToSet(Steps) = {"title", "date", "start_time", "end_time", "location", "pay",
                    "work_type", "dress", "manager"}
<1>1. DOMAIN Steps = 1 .. 9
  BY DEF Steps
<1>2. 1 .. 9 = {1, 2, 3, 4, 5, 6, 7, 8, 9}
  OBVIOUS
<1> QED BY <1>1, <1>2 DEF ToSet, Steps

LEMMA EightFields ==
    ToSet(EditOrder) = {"title", "date", "time", "location", "pay", "work_type",
                        "dress", "manager"}
<1>1. DOMAIN EditOrder = 1 .. 8
  BY DEF EditOrder
<1>2. 1 .. 8 = {1, 2, 3, 4, 5, 6, 7, 8}
  OBVIOUS
<1> QED BY <1>1, <1>2 DEF ToSet, EditOrder

LEMMA Places ==
    \A i \in 1 .. 9 : Place(Steps, Steps[i]) = i
<1>1. DOMAIN Steps = {1, 2, 3, 4, 5, 6, 7, 8, 9}
  BY DEF Steps
<1>2. \A i, j \in DOMAIN Steps : Steps[i] = Steps[j] => i = j
  BY <1>1 DEF Steps
<1>3. \A i \in DOMAIN Steps : Place(Steps, Steps[i]) = i
  BY <1>2 DEF Place
<1> QED BY <1>1, <1>3 DEF Steps

LEMMA NextSteps ==
    /\ AfterStep("title") = "date" /\ AfterStep("date") = "start_time"
    /\ AfterStep("start_time") = "end_time" /\ AfterStep("end_time") = "location"
    /\ AfterStep("location") = "pay" /\ AfterStep("pay") = "work_type"
    /\ AfterStep("work_type") = "dress" /\ AfterStep("dress") = "manager"
    /\ AfterStep("manager") = "confirm"
<1>1. /\ Steps[1] = "title" /\ Steps[2] = "date" /\ Steps[3] = "start_time"
      /\ Steps[4] = "end_time" /\ Steps[5] = "location" /\ Steps[6] = "pay"
      /\ Steps[7] = "work_type" /\ Steps[8] = "dress" /\ Steps[9] = "manager"
  BY DEF Steps
<1>2. /\ Place(Steps, "title") = 1 /\ Place(Steps, "date") = 2
      /\ Place(Steps, "start_time") = 3 /\ Place(Steps, "end_time") = 4
      /\ Place(Steps, "location") = 5 /\ Place(Steps, "pay") = 6
      /\ Place(Steps, "work_type") = 7 /\ Place(Steps, "dress") = 8
  <2>1. /\ 1 \in 1 .. 9 /\ 2 \in 1 .. 9 /\ 3 \in 1 .. 9 /\ 4 \in 1 .. 9 /\ 5 \in 1 .. 9
        /\ 6 \in 1 .. 9 /\ 7 \in 1 .. 9 /\ 8 \in 1 .. 9
    OBVIOUS
  <2> QED BY <1>1, <2>1, Places
<1> QED BY <1>1, <1>2 DEF AfterStep

\* The answers of a registration grow by one with every step.
LEMMA BeforeSteps ==
    /\ Before("title") = {}
    /\ \A f \in ToSet(Steps) \ {"manager"} :
          AfterStep(f) \in ToSet(Steps) /\ Before(AfterStep(f)) = Before(f) \cup {f}
    /\ Before("manager") \cup {"manager"} = ToSet(Steps)
<1>1. DOMAIN Steps = 1 .. 9
  BY DEF Steps
<1>2. ASSUME NEW f \in ToSet(Steps) \ {"manager"}
      PROVE  AfterStep(f) \in ToSet(Steps) /\ Before(AfterStep(f)) = Before(f) \cup {f}
  <2>1. PICK i \in 1 .. 9 : Steps[i] = f
    BY <1>1 DEF ToSet
  <2>2. i # 9
    BY <2>1 DEF Steps
  <2>3. i + 1 \in 1 .. 9 /\ Place(Steps, f) = i
    BY <2>1, <2>2, Places
  <2>4. AfterStep(f) = Steps[i + 1]
    BY <2>3 DEF AfterStep
  <2>5. Place(Steps, AfterStep(f)) = i + 1
    BY <2>3, <2>4, Places
  <2>6. 1 .. (i + 1) - 1 = (1 .. i - 1) \cup {i}
    BY <2>3
  <2>7. Before(AfterStep(f)) = Before(f) \cup {f}
    BY <2>1, <2>3, <2>5, <2>6 DEF Before
  <2> QED BY <1>1, <2>3, <2>4, <2>7 DEF ToSet
<1>3. Before("title") = {}
  <2>1. Steps[1] = "title" /\ 1 \in 1 .. 9
    BY DEF Steps
  <2> QED BY <2>1, Places DEF Before
<1>4. Before("manager") \cup {"manager"} = ToSet(Steps)
  <2>1. Steps[9] = "manager" /\ 9 \in 1 .. 9
    BY DEF Steps
  <2>2. Place(Steps, "manager") = 9
    BY <2>1, Places
  <2>3. 1 .. 9 - 1 = (1 .. 9) \ {9}
    OBVIOUS
  <2> QED BY <1>1, <2>1, <2>2, <2>3 DEF Before, ToSet
<1> QED BY <1>2, <1>3, <1>4

\* A button with the name of a field is one of the edit menu.
LEMMA FieldButtons ==
    ASSUME NEW s \in DOMAIN Fixed, NEW f \in PerEvent[s], f \in ToSet(EditOrder)
    PROVE  f \in EditFields
<1>1. CASE s = "event_edit"
  <2>1. PerEvent[s] = {"event_detail"} \cup EditFields
    BY <1>1 DEF PerEvent
  <2> QED BY <2>1, EightFields
<1>2. CASE s # "event_edit"
  BY <1>2, EightFields DEF PerEvent
<1> QED BY <1>1, <1>2

LEMMA Screens ==
    DOMAIN Fixed =
      {"main", "no_events", "event_list", "event_detail", "event_delete", "deleted",
       "event_edit", "reg_prompt", "reg_summary", "registered", "edit_prompt", "edited",
       "applications", "app_list", "app_pending", "app_closed", "notice", "attendances",
       "att_none", "att_list", "exports", "chain", "chain_none", "dead"}
BY DEF Fixed

-----------------------------------------------------------------------------
(* Types, by what the handlers write together.                             *)

Drafts == [on : BOOLEAN, keys : SUBSET ToSet(Steps), wrong : SUBSET EditFields, huge : BOOLEAN]
Questions == [field : {"none"} \cup ToSet(Steps) \cup ToSet(EditOrder),
              event : EventIds \cup {0}]
Message == [at : DOMAIN Fixed, evs : SUBSET EventIds]

TablesTyped ==
    /\ admin \in BOOLEAN
    /\ events \in [EventIds -> {"free", "row", "gone"}]
    /\ wrong \in [EventIds -> SUBSET EditFields]
MsgsTyped == msgs \in [Slots -> Message]
DialogueTyped ==
    /\ step \in {"none", "confirm"} \cup ToSet(Steps)
    /\ editing \in SUBSET EditFields
    /\ draft \in Drafts
    /\ target \in EventIds \cup {0}
    /\ asked \in Questions
    /\ mixed \in BOOLEAN

LEMMA TypedParts ==
    /\ TypeOK <=> TablesTyped /\ MsgsTyped /\ DialogueTyped
    /\ TypeOK' <=> TablesTyped' /\ MsgsTyped' /\ DialogueTyped'
BY Zenon DEF TypeOK, TablesTyped, MsgsTyped, DialogueTyped, Drafts, Questions, Message

LEMMA PartsKept ==
    /\ TablesTyped /\ UNCHANGED tables => TablesTyped'
    /\ MsgsTyped /\ UNCHANGED msgs => MsgsTyped'
    /\ DialogueTyped /\ UNCHANGED dialogue => DialogueTyped'
BY DEF TablesTyped, tables, MsgsTyped, DialogueTyped, dialogue

LEMMA Drafted == NoDraft \in Drafts /\ EmptyDraft \in Drafts
BY DEF NoDraft, EmptyDraft, Drafts

LEMMA Asked ==
    /\ Nothing \in Questions
    /\ \A f \in ToSet(Steps) \cup ToSet(EditOrder), e \in EventIds \cup {0} :
          Question(f, e) \in Questions
BY DEF Nothing, Question, Questions

LEMMA ScreenTyped ==
    ASSUME NEW s \in DOMAIN Fixed, NEW E \in SUBSET EventIds
    PROVE  Screen(s, E) \in Message
BY DEF Screen, Message

LEMMA DeadTyped == Dead \in Message
BY Screens DEF Dead, Message

LEMMA ShowsTyped ==
    ASSUME NEW m \in Slots, NEW s \in DOMAIN Fixed, NEW E \in SUBSET EventIds,
           MsgsTyped, Shows(m, s, E)
    PROVE  MsgsTyped'
BY ScreenTyped DEF MsgsTyped, Shows

LEMMA SendsTyped ==
    ASSUME NEW s \in DOMAIN Fixed, NEW E \in SUBSET EventIds, MsgsTyped, Sends(msgs, s, E)
    PROVE  MsgsTyped'
BY ScreenTyped DEF MsgsTyped, Sends

LEMMA PresentIds == Present \subseteq EventIds /\ Unused \subseteq EventIds
BY DEF Present, Unused

\* What a menu handler does, but for the deletion and /start.
LEMMA DrawsTyped ==
    ASSUME TypeOK, NEW m \in Slots, NEW s \in DOMAIN Fixed, NEW E \in SUBSET EventIds,
           Draws(m, s, E)
    PROVE  TypeOK'
BY ShowsTyped, TypedParts, PartsKept DEF Draws

MenuAction(m) ==
    \/ main_menu(m) \/ event_list(m) \/ manage_applications(m)
    \/ manage_workers(m) \/ manage_attendance(m) \/ export_payroll(m)
    \/ blockchain_menu(m) \/ blockchain_records(m)
    \/ blockchain_transactions(m) \/ blockchain_verify(m)
EventAction(m, e) ==
    \/ event_detail(m, e) \/ event_delete(m, e) \/ event_edit(m, e)
    \/ app_list(m, e) \/ app_detail(m, e) \/ app_confirm(m, e)
    \/ app_waitlist(m, e) \/ app_reject(m, e)
    \/ attendance_list(m, e) \/ export_event_payroll(m, e)

LEMMA MenusDraw ==
    ASSUME NEW m \in Slots, MenuAction(m)
    PROVE  \E s \in DOMAIN Fixed, E \in SUBSET EventIds : Draws(m, s, E)
<1>1. {} \in SUBSET EventIds /\ Present \in SUBSET EventIds
  BY PresentIds
<1>2. \A E \in SUBSET Present : E \in SUBSET EventIds
  BY PresentIds
<1>3. CASE main_menu(m) \/ manage_workers(m)
  BY <1>1, <1>3, Screens DEF main_menu, manage_workers
<1>4. CASE event_list(m) \/ manage_attendance(m)
  BY <1>1, <1>4, Screens DEF event_list, manage_attendance
<1>5. CASE manage_applications(m)
  BY <1>1, <1>2, <1>5, Screens DEF manage_applications
<1>6. CASE export_payroll(m)
  BY <1>1, <1>2, <1>6, Screens DEF export_payroll
<1>7. CASE \/ blockchain_menu(m) \/ blockchain_records(m)
           \/ blockchain_transactions(m) \/ blockchain_verify(m)
  BY <1>1, <1>7, Screens
     DEF blockchain_menu, blockchain_records, blockchain_transactions, blockchain_verify
<1> QED BY <1>3, <1>4, <1>5, <1>6, <1>7 DEF MenuAction

LEMMA EventMenusDraw ==
    ASSUME NEW m \in Slots, NEW e \in EventIds, EventAction(m, e)
    PROVE  \E s \in DOMAIN Fixed, E \in SUBSET EventIds : Draws(m, s, E)
<1>1. {} \in SUBSET EventIds /\ {e} \in SUBSET EventIds
  OBVIOUS
<1>2. CASE event_detail(m, e) \/ event_delete(m, e) \/ event_edit(m, e)
  BY <1>1, <1>2, Screens DEF event_detail, event_delete, event_edit
<1>3. CASE app_list(m, e)
  BY <1>1, <1>3, Screens DEF app_list
<1>4. CASE app_detail(m, e) \/ app_confirm(m, e)
  BY <1>1, <1>4, Screens DEF app_detail, app_confirm
<1>5. CASE app_waitlist(m, e) \/ app_reject(m, e)
  BY <1>1, <1>5, Screens DEF app_waitlist, app_reject
<1>6. CASE attendance_list(m, e) \/ export_event_payroll(m, e)
  BY <1>1, <1>6, Screens DEF attendance_list, export_event_payroll
<1> QED BY <1>2, <1>3, <1>4, <1>5, <1>6 DEF EventAction

\* The deletion of an event, in the bot or in the API.
LEMMA DeletedTyped ==
    ASSUME NEW e \in EventIds, TablesTyped, events' = [events EXCEPT ![e] = "gone"],
           UNCHANGED <<admin, wrong>>
    PROVE  TablesTyped'
BY DEF TablesTyped

LEMMA MenusTyped == TypeOK /\ Menus => TypeOK'
<1> SUFFICES ASSUME TypeOK, Menus PROVE TypeOK'
  OBVIOUS
<1>1. CASE start
  <2>1. TablesTyped'
    BY <1>1, TypedParts DEF start, require_admin, TablesTyped
  <2> QED BY <1>1, <2>1, TypedParts, PartsKept DEF start
<1>2. CASE \E m \in Slots : MenuAction(m)
  BY <1>2, MenusDraw, DrawsTyped
<1>3. CASE \E m \in Slots, e \in EventIds : EventAction(m, e)
  BY <1>3, EventMenusDraw, DrawsTyped
<1>4. CASE \E m \in Slots, e \in EventIds : event_delete_confirm(m, e)
  <2>1. PICK m \in Slots, e \in EventIds : event_delete_confirm(m, e)
    BY <1>4
  <2>2. CASE Draws(m, "dead", {})
    BY <2>2, DrawsTyped, Screens
  <2>3. CASE /\ events' = [events EXCEPT ![e] = "gone"] /\ Shows(m, "deleted", {})
             /\ UNCHANGED <<admin, wrong, dialogue>>
    <3>1. TablesTyped'
      BY <2>3, DeletedTyped, TypedParts
    <3>2. MsgsTyped'
      BY <2>3, ShowsTyped, Screens, TypedParts
    <3> QED BY <2>3, <3>1, <3>2, TypedParts, PartsKept
  <2> QED BY <2>1, <2>2, <2>3 DEF event_delete_confirm
<1> QED BY <1>1, <1>2, <1>3, <1>4, Zenon DEF Menus, MenuAction, EventAction

LEMMA EndsTyped ==
    ASSUME DialogueTyped, NEW s \in {"none", "confirm"} \cup ToSet(Steps),
           NEW ed \in SUBSET EditFields, Ends(s, ed)
    PROVE  DialogueTyped'
BY Drafted, Asked DEF Ends, StillMixed, DialogueTyped

LEMMA RegStartTyped ==
    ASSUME TypeOK, NEW m \in Slots, event_register_start(m)
    PROVE  TypeOK'
<1>1. "title" \in ToSet(Steps)
  BY NineSteps
<1>2. Question("title", 0) \in Questions
  BY <1>1, Asked
<1>3. DialogueTyped'
  BY <1>1, <1>2, Drafted, TypedParts DEF event_register_start, DialogueTyped, Idle
<1>4. MsgsTyped'
  BY ShowsTyped, Screens, TypedParts DEF event_register_start
<1> QED BY <1>3, <1>4, TypedParts, PartsKept DEF event_register_start

LEMMA StoredTyped ==
    ASSUME DialogueTyped, NEW f \in ToSet(Steps)
    PROVE  Stored(f) \in Drafts
BY DEF DialogueTyped, Drafts, Stored

LEMMA TextTyped ==
    ASSUME TypeOK, NEW f \in ToSet(Steps), NEW t, TextReceived(f, t), MsgsTyped'
    PROVE  TypeOK'
<1>1. AfterStep(f) \in {"confirm"} \cup ToSet(Steps)
  BY BeforeSteps, NextSteps
<1>2. asked' \in Questions
  <2>1. CASE f = "manager"
    BY <2>1, Asked DEF TextReceived
  <2>2. CASE f # "manager"
    <3>1. AfterStep(f) \in ToSet(Steps)
      BY <2>2, BeforeSteps
    <3> QED BY <2>2, <3>1, Asked DEF TextReceived
  <2> QED BY <2>1, <2>2
<1>3. Stored(f) \in Drafts
  BY StoredTyped, TypedParts
<1>4. DialogueTyped'
  BY <1>1, <1>2, <1>3, TypedParts DEF TextReceived, DialogueTyped
<1> QED BY <1>4, TypedParts, PartsKept DEF TextReceived

LEMMA AsksAgainTyped ==
    ASSUME TypeOK, NEW f \in ToSet(Steps), AsksAgain(f)
    PROVE  TypeOK'
<1>1. Question(f, 0) \in Questions
  BY Asked
<1>2. DialogueTyped'
  BY <1>1, TypedParts DEF AsksAgain, DialogueTyped
<1> QED BY <1>2, TypedParts, PartsKept DEF AsksAgain

\* A text in event_conv: a plain answer, a date or a time, the pay, or the last.
PlainAnswer(t) ==
    \/ event_title_received(t) \/ event_location_received(t)
    \/ event_work_type_received(t) \/ event_dress_received(t)
DigitsAnswer(t) ==
    \/ event_date_received(t) \/ event_start_time_received(t) \/ event_end_time_received(t)

LEMMA PlainIs ==
    ASSUME NEW t, PlainAnswer(t)
    PROVE  \E f \in ToSet(Steps) \ {"manager"} : TextReceived(f, t) /\ UNCHANGED msgs
BY NineSteps DEF PlainAnswer, event_title_received, event_location_received,
                 event_work_type_received, event_dress_received

LEMMA DigitsIs ==
    ASSUME NEW t, DigitsAnswer(t)
    PROVE  \E f \in ToSet(Steps) \ {"manager"} :
              \/ TextReceived(f, t) /\ UNCHANGED msgs
              \/ step = f /\ AsksAgain(f)
BY NineSteps DEF DigitsAnswer, event_date_received, event_start_time_received,
                 event_end_time_received, FourDigitsReceived

LEMMA PayTyped ==
    ASSUME TypeOK, NEW t, event_pay_received(t)
    PROVE  TypeOK'
<1>1. "pay" \in ToSet(Steps) /\ "work_type" \in ToSet(Steps)
  BY NineSteps
<1>2. Question("work_type", 0) \in Questions
  BY <1>1, Asked
<1>3. draft' \in Drafts
  <2>1. Stored("pay") \in Drafts
    BY <1>1, StoredTyped, TypedParts
  <2> QED BY <2>1 DEF event_pay_received, Drafts
<1>4. DialogueTyped'
  BY <1>1, <1>2, <1>3, TypedParts DEF event_pay_received, DialogueTyped
<1> QED BY <1>4, TypedParts, PartsKept DEF event_pay_received

LEMMA AnswersTyped ==
    ASSUME TypeOK, NEW t,
           PlainAnswer(t) \/ DigitsAnswer(t) \/ event_pay_received(t) \/ event_manager_received(t)
    PROVE  TypeOK'
<1>1. CASE PlainAnswer(t)
  BY <1>1, PlainIs, TextTyped, TypedParts, PartsKept
<1>2. CASE DigitsAnswer(t)
  BY <1>2, DigitsIs, TextTyped, AsksAgainTyped, TypedParts, PartsKept
<1>3. CASE event_manager_received(t)
  <2>1. MsgsTyped'
    BY <1>3, SendsTyped, Screens, TypedParts DEF event_manager_received
  <2> QED BY <1>3, <2>1, TextTyped, NineSteps DEF event_manager_received
<1> QED BY <1>1, <1>2, <1>3, PayTyped

LEMMA CreatedTyped ==
    ASSUME TablesTyped, NEW e \in EventIds, NEW columns \in SUBSET EditFields,
           create_event(e, columns), UNCHANGED admin
    PROVE  TablesTyped'
BY DEF create_event, TablesTyped

LEMMA ConfirmTyped ==
    ASSUME TypeOK, NEW m \in Slots, event_confirm(m)
    PROVE  TypeOK'
<1>1. MsgsTyped'
  BY ShowsTyped, Screens, TypedParts DEF event_confirm
<1>2. TablesTyped'
  <2>1. CASE \E e \in Unused : create_event(e, draft.wrong) /\ UNCHANGED admin
    <3>1. draft.wrong \in SUBSET EditFields
      BY TypedParts DEF DialogueTyped, Drafts
    <3> QED BY <2>1, <3>1, CreatedTyped, PresentIds, TypedParts
  <2>2. CASE UNCHANGED tables
    BY <2>2, TypedParts, PartsKept
  <2> QED BY <2>1, <2>2 DEF event_confirm
<1>3. DialogueTyped'
  <2>1. CASE Ends("none", editing)
    BY <2>1, EndsTyped, TypedParts DEF DialogueTyped
  <2>2. CASE /\ step' = "none" /\ asked' = Nothing /\ StillMixed("none", editing)
             /\ UNCHANGED <<editing, draft, target>>
    BY <2>2, Asked, TypedParts DEF DialogueTyped, StillMixed
  <2> QED BY <2>1, <2>2 DEF event_confirm
<1> QED BY <1>1, <1>2, <1>3, TypedParts

LEMMA RegCancelTyped ==
    ASSUME TypeOK, NEW ms \in [Slots -> Message], event_cancel(ms)
    PROVE  TypeOK'
<1>1. DialogueTyped'
  BY EndsTyped, TypedParts DEF event_cancel, DialogueTyped
<1> QED BY <1>1, TypedParts, PartsKept DEF event_cancel, MsgsTyped

LEMMA EditCancelTyped ==
    ASSUME TypeOK, NEW ms \in [Slots -> Message], edit_cancel(ms)
    PROVE  TypeOK'
<1>1. \E ed \in SUBSET EditFields : Ends(step, ed)
  BY TypedParts DEF edit_cancel, DialogueTyped
<1>2. DialogueTyped'
  BY <1>1, EndsTyped, TypedParts DEF DialogueTyped
<1> QED BY <1>2, TypedParts, PartsKept DEF edit_cancel, MsgsTyped

LEMMA CancelTyped ==
    ASSUME TypeOK,
           \/ cancel
           \/ \E m \in Slots : \/ event_cancel([msgs EXCEPT ![m] = Dead])
                               \/ edit_cancel([msgs EXCEPT ![m] = Dead])
    PROVE  TypeOK'
<1>1. msgs \in [Slots -> Message]
  BY TypedParts DEF MsgsTyped
<1>2. \A m \in Slots : [msgs EXCEPT ![m] = Dead] \in [Slots -> Message]
  BY <1>1, DeadTyped
<1>3. CASE cancel
  BY <1>1, <1>3, RegCancelTyped, EditCancelTyped DEF cancel
<1> QED BY <1>2, <1>3, RegCancelTyped, EditCancelTyped

LEMMA EditStartTyped ==
    ASSUME TypeOK, NEW f \in ToSet(EditOrder), NEW m \in Slots, NEW e \in EventIds,
           EditStart(f, m, e)
    PROVE  TypeOK'
<1>1. f \in EditFields
  BY FieldButtons, TypedParts DEF EditStart, PressedOn, MsgsTyped, Message
<1>2. MsgsTyped'
  BY ShowsTyped, Screens, TypedParts DEF EditStart
<1>3. Question(f, e) \in Questions
  BY Asked
<1>4. DialogueTyped'
  BY <1>1, <1>3, TypedParts DEF EditStart, DialogueTyped, Idle
<1> QED BY <1>2, <1>4, TypedParts, PartsKept DEF EditStart

LEMMA EditReceivedTyped ==
    ASSUME TypeOK, NEW f \in ToSet(EditOrder), NEW valid \in BOOLEAN, NEW saved \in BOOLEAN,
           EditReceived(f, valid, saved)
    PROVE  TypeOK'
<1>1. f \in EditFields /\ editing \in SUBSET EditFields /\ target \in EventIds \cup {0}
      /\ step \in {"none", "confirm"} \cup ToSet(Steps)
  BY TypedParts DEF EditReceived, Reaches, FirstEditing, DialogueTyped
<1>2. CASE asked' = Question(f, target) /\ UNCHANGED <<wrong, msgs, step, editing, draft, target, mixed>>
  <2>1. Question(f, target) \in Questions
    BY <1>1, Asked
  <2>2. DialogueTyped'
    BY <1>2, <2>1, TypedParts DEF DialogueTyped
  <2>3. UNCHANGED <<tables, msgs>>
    BY <1>2 DEF EditReceived, tables
  <2> QED BY <2>2, <2>3, TypedParts, PartsKept
<1>3. CASE Ends(step, editing \ {f})
  <2>1. DialogueTyped'
    BY <1>1, <1>3, EndsTyped, TypedParts
  <2>2. TablesTyped'
    BY <1>1, <1>3, TypedParts DEF EditReceived, TablesTyped
  <2>3. MsgsTyped'
    <3>1. CASE UNCHANGED msgs
      BY <3>1, TypedParts, PartsKept
    <3>2. CASE target # 0 /\ Sends(msgs, "edited", {target})
      <4>1. {target} \in SUBSET EventIds
        BY <1>1, <3>2
      <4> QED BY <3>2, <4>1, SendsTyped, Screens, TypedParts
    <3> QED BY <3>1, <3>2 DEF EditReceived
  <2> QED BY <2>1, <2>2, <2>3, TypedParts
<1> QED BY <1>2, <1>3 DEF EditReceived

EditAction(t) ==
    \/ edit_title_conv(t) \/ edit_date_conv(t) \/ edit_time_conv(t)
    \/ edit_location_conv(t) \/ edit_pay_conv(t)
    \/ edit_work_type_conv(t) \/ edit_dress_conv(t) \/ edit_manager_conv(t)

LEMMA EditIs ==
    ASSUME NEW t, EditAction(t)
    PROVE  \E f \in ToSet(EditOrder) :
              \/ \E valid, saved \in BOOLEAN : EditReceived(f, valid, saved)
              \/ \E m \in Slots, e \in EventIds : EditStart(f, m, e)
<1>1. \A f \in ToSet(EditOrder) : \A valid, saved \in BOOLEAN :
          Conversation(f, t, valid, saved) =>
              \/ EditReceived(f, valid, saved)
              \/ \E m \in Slots, e \in EventIds : EditStart(f, m, e)
  BY DEF Conversation
<1>2. \E f \in ToSet(EditOrder) : \E valid, saved \in BOOLEAN : Conversation(f, t, valid, saved)
  <2> DEFINE four == t = "four_digits"
             fits == t # "huge"
  <2>1. four \in BOOLEAN /\ fits \in BOOLEAN
    OBVIOUS
  <2>2. \/ Conversation("title", t, TRUE, TRUE) \/ Conversation("date", t, four, TRUE)
        \/ Conversation("time", t, TRUE, TRUE) \/ Conversation("location", t, TRUE, TRUE)
        \/ Conversation("pay", t, TRUE, fits) \/ Conversation("work_type", t, TRUE, TRUE)
        \/ Conversation("dress", t, TRUE, TRUE) \/ Conversation("manager", t, TRUE, TRUE)
    BY DEF EditAction, edit_title_conv, edit_date_conv, edit_time_conv, edit_location_conv,
       edit_pay_conv, edit_work_type_conv, edit_dress_conv, edit_manager_conv
  <2> HIDE DEF four, fits
  <2>3. TRUE \in BOOLEAN
    OBVIOUS
  <2> QED BY <2>1, <2>2, <2>3, EightFields
<1> QED BY <1>1, <1>2

LEMMA EditsTyped ==
    ASSUME TypeOK, NEW t, EditAction(t)
    PROVE  TypeOK'
BY EditIs, EditStartTyped, EditReceivedTyped

LEMMA OthersTyped ==
    ASSUME TypeOK,
           \/ \E e \in EventIds : \/ ApiCreate(e)
                                  \/ \E f \in EditFields : ApiUpdate(e, f)
                                  \/ ApiDelete(e)
           \/ Restart
           \/ UNCHANGED vars
    PROVE  TypeOK'
<1>1. CASE \E e \in EventIds : ApiCreate(e)
  <2>1. TablesTyped'
    BY <1>1, CreatedTyped, TypedParts DEF ApiCreate
  <2> QED BY <1>1, <2>1, TypedParts, PartsKept DEF ApiCreate
<1>2. CASE \E e \in EventIds, f \in EditFields : ApiUpdate(e, f)
  <2>1. TablesTyped'
    BY <1>2, TypedParts DEF ApiUpdate, TablesTyped
  <2> QED BY <1>2, <2>1, TypedParts, PartsKept DEF ApiUpdate
<1>3. CASE \E e \in EventIds : ApiDelete(e)
  <2>1. TablesTyped'
    BY <1>3, DeletedTyped, TypedParts DEF ApiDelete
  <2> QED BY <1>3, <2>1, TypedParts, PartsKept DEF ApiDelete
<1>4. CASE Restart
  <2>1. DialogueTyped'
    BY <1>4, Drafted, TypedParts DEF Restart, DialogueTyped
  <2> QED BY <1>4, <2>1, TypedParts, PartsKept DEF Restart
<1>5. CASE UNCHANGED vars
  BY <1>5 DEF vars, TypeOK
<1> QED BY <1>1, <1>2, <1>3, <1>4, <1>5

LEMMA DialoguesAre ==
    ASSUME Dialogues
    PROVE  \/ cancel
           \/ \E m \in Slots :
                 \/ event_register_start(m) \/ event_confirm(m)
                 \/ event_cancel([msgs EXCEPT ![m] = Dead])
                 \/ edit_cancel([msgs EXCEPT ![m] = Dead])
           \/ \E t \in Texts :
                 \/ PlainAnswer(t) \/ DigitsAnswer(t) \/ event_pay_received(t)
                 \/ event_manager_received(t) \/ EditAction(t)
BY Zenon DEF Dialogues, PlainAnswer, DigitsAnswer, EditAction

LEMMA TypeStep == TypeOK /\ [Next]_vars => TypeOK'
<1> SUFFICES ASSUME TypeOK, [Next]_vars PROVE TypeOK'
  OBVIOUS
<1>1. CASE Dialogues
  <2>1. CASE \E m \in Slots : event_register_start(m) \/ event_confirm(m)
    BY <2>1, RegStartTyped, ConfirmTyped
  <2>2. CASE \E t \in Texts :
                \/ PlainAnswer(t) \/ DigitsAnswer(t) \/ event_pay_received(t)
                \/ event_manager_received(t) \/ EditAction(t)
    BY <2>2, AnswersTyped, EditsTyped
  <2> QED BY <1>1, <2>1, <2>2, DialoguesAre, CancelTyped
<1> QED BY <1>1, MenusTyped, OthersTyped DEF Next

LEMMA TypesHold == Spec => []TypeOK
<1>1. Init => TypeOK
  <2> SUFFICES ASSUME Init PROVE TypeOK
    OBVIOUS
  <2>1. TablesTyped
    BY DEF Init, TablesTyped
  <2>2. MsgsTyped
    BY ScreenTyped, DeadTyped, Screens DEF Init, MsgsTyped
  <2>3. DialogueTyped
    BY Drafted, Asked DEF Init, DialogueTyped
  <2> QED BY <2>1, <2>2, <2>3, TypedParts
<1> QED BY <1>1, TypeStep, PTL DEF Spec

-----------------------------------------------------------------------------
(* One dialogue at a time.  A dialogue that has the chat to itself has all *)
(* its answers, is the one whose question was asked last, and has stored   *)
(* no answer in a wrong place.                                             *)

SoleDialogue == ~mixed =>
    /\ draft.wrong = {}
    /\ step # "none" => editing = {}
    /\ AtText => asked = Question(step, 0) /\ draft.on /\ draft.keys = Before(step)
    /\ step = "confirm" => draft.on /\ draft.keys = ToSet(Steps)
    /\ \A f \in editing : editing = {f} /\ target # 0 /\ asked = Question(f, target)
NoData == ~draft.on => draft = NoDraft

SoleInv == SoleDialogue /\ NoData

\* What a step may do to the answers while one dialogue is open.
StoredRight ==
    mixed \/ /\ draft'.wrong \subseteq draft.wrong
             /\ \A e \in EventIds : wrong'[e] \subseteq wrong[e]

LEMMA NotAtText ==
    /\ step \in {"none", "confirm"} => ~AtText
    /\ AtText => step # "none" /\ step # "confirm"
BY NineSteps DEF AtText

LEMMA NoDraftIs ==
    /\ NoDraft.wrong = {} /\ EmptyDraft.wrong = {} /\ EmptyDraft.keys = {}
    /\ EmptyDraft.on /\ ~NoDraft.on
BY DEF NoDraft, EmptyDraft

LEMMA QuietSole ==
    ASSUME SoleInv, UNCHANGED dialogue, wrong' = wrong
    PROVE  SoleInv' /\ StoredRight
BY DEF SoleInv, SoleDialogue, NoData, AtText, dialogue, StoredRight

\* What is left when none is open.
LEMMA IdleSole ==
    ASSUME step' = "none", editing' = {}, draft' = NoDraft
    PROVE  SoleInv'
<1>1. ~AtText'
  BY NineSteps DEF AtText
<1> QED BY <1>1, NoDraftIs DEF SoleInv, SoleDialogue, NoData

LEMMA MixedSole ==
    ASSUME mixed', draft' = NoDraft
    PROVE  SoleInv'
BY NoDraftIs DEF SoleInv, SoleDialogue, NoData

\* A dialogue ends: either another one is open, and they were mixed, or none is.
LEMMA RegEndsSole ==
    ASSUME TypeOK, SoleInv, step # "none", Ends("none", editing)
    PROVE  SoleInv' /\ draft'.wrong = {}
<1>1. draft' = NoDraft /\ editing' = editing /\ step' = "none"
  BY DEF Ends
<1>2. ~mixed' => editing = {}
  BY DEF Ends, StillMixed, SoleInv, SoleDialogue, TypeOK
<1> QED BY <1>1, <1>2, IdleSole, MixedSole, NoDraftIs

LEMMA EditEndsSole ==
    ASSUME TypeOK, SoleInv, NEW f \in editing, Ends(step, editing \ {f})
    PROVE  SoleInv' /\ draft'.wrong = {}
<1>1. draft' = NoDraft /\ editing' = editing \ {f} /\ step' = step
  BY DEF Ends
<1>2. ~mixed' => editing' = {} /\ step' = "none"
  <2>1. CASE mixed
    BY <1>1, <2>1 DEF Ends, StillMixed, TypeOK
  <2>2. CASE ~mixed
    BY <1>1, <2>2 DEF SoleInv, SoleDialogue
  <2> QED BY <2>1, <2>2
<1> QED BY <1>1, <1>2, IdleSole, MixedSole, NoDraftIs

LEMMA RegStartSole ==
    ASSUME TypeOK, SoleInv, NEW m, event_register_start(m)
    PROVE  SoleInv' /\ StoredRight
<1>1. /\ step' = "title" /\ draft' = EmptyDraft /\ asked' = Question("title", 0)
      /\ mixed' = (mixed \/ ~Idle) /\ UNCHANGED <<tables, editing, target>>
  BY DEF event_register_start
<1>2. SoleDialogue'
  <2>1. ~mixed' => editing' = {}
    BY <1>1 DEF Idle
  <2> QED BY <1>1, <2>1, BeforeSteps, NoDraftIs DEF SoleDialogue, AtText
<1>3. NoData'
  BY <1>1, NoDraftIs DEF NoData
<1>4. StoredRight
  BY <1>1, NoDraftIs DEF StoredRight, tables
<1> QED BY <1>2, <1>3, <1>4 DEF SoleInv

\* The answer of a step is stored, and the next step begins.
LEMMA StoredIs ==
    ASSUME TypeOK, NEW f
    PROVE  /\ Stored(f).on = draft.on
           /\ Stored(f).keys = draft.keys \cup {f}
           /\ asked = Question(f, 0) => Stored(f).wrong = draft.wrong
BY DEF TypeOK, Stored

LEMMA TextSole ==
    ASSUME TypeOK, SoleInv, NEW f \in ToSet(Steps), NEW t, TextReceived(f, t)
    PROVE  SoleInv' /\ StoredRight
<1>1. /\ step = f /\ draft.on /\ draft' = Stored(f) /\ step' = AfterStep(f)
      /\ UNCHANGED <<tables, editing, target, mixed>>
  BY DEF TextReceived
<1>2. AtText /\ step # "none" /\ step # "confirm"
  BY <1>1, NotAtText DEF AtText
<1>3. /\ draft'.on /\ draft'.keys = draft.keys \cup {f}
      /\ asked = Question(f, 0) => draft'.wrong = draft.wrong
  BY <1>1, StoredIs
<1>4. NoData'
  BY <1>3 DEF NoData
<1>5. ASSUME ~mixed
      PROVE  /\ draft'.wrong = {} /\ draft.wrong = {} /\ editing' = {}
             /\ draft'.keys = Before(f) \cup {f}
  BY <1>1, <1>2, <1>3, <1>5 DEF SoleInv, SoleDialogue
<1>6. StoredRight
  BY <1>1, <1>5 DEF StoredRight, tables
<1>7. SoleDialogue'
  <2>1. CASE f = "manager"
    <3>1. step' = "confirm" /\ ~AtText'
      BY <1>1, <2>1, NextSteps, NineSteps DEF AtText
    <3> QED BY <1>1, <1>3, <1>5, <2>1, <3>1, BeforeSteps DEF SoleDialogue
  <2>2. CASE f # "manager"
    <3>1. /\ step' \in ToSet(Steps) /\ step' # "confirm"
          /\ Before(step') = Before(f) \cup {f}
      BY <1>1, <2>2, BeforeSteps, NineSteps
    <3>2. asked' = Question(step', 0)
      BY <1>1, <2>2 DEF TextReceived
    <3> QED BY <1>1, <1>3, <1>5, <3>1, <3>2 DEF SoleDialogue
  <2> QED BY <2>1, <2>2
<1> QED BY <1>4, <1>6, <1>7 DEF SoleInv

LEMMA PaySole ==
    ASSUME TypeOK, SoleInv, NEW t, event_pay_received(t)
    PROVE  SoleInv' /\ StoredRight
<1> DEFINE big == t = "huge"
<1>1. /\ step = "pay" /\ draft.on /\ draft' = [Stored("pay") EXCEPT !.huge = big]
      /\ step' = "work_type" /\ asked' = Question("work_type", 0)
      /\ UNCHANGED <<tables, editing, target, mixed>>
  BY DEF event_pay_received
<1> HIDE DEF big
<1>2. AtText /\ "pay" \in ToSet(Steps) /\ "work_type" \in ToSet(Steps)
  BY <1>1, NineSteps DEF AtText
<1>3. Stored("pay") \in Drafts
  BY <1>2, StoredTyped, TypedParts
<1>4. /\ draft'.on = Stored("pay").on /\ draft'.keys = Stored("pay").keys
      /\ draft'.wrong = Stored("pay").wrong
  BY <1>1, <1>3 DEF Drafts
<1>5. /\ draft'.on /\ draft'.keys = draft.keys \cup {"pay"}
      /\ asked = Question("pay", 0) => draft'.wrong = draft.wrong
  BY <1>1, <1>4, StoredIs
<1>6. ASSUME ~mixed
      PROVE  /\ draft'.wrong = {} /\ draft.wrong = {} /\ editing' = {}
             /\ draft'.keys = Before("pay") \cup {"pay"}
  BY <1>1, <1>2, <1>5, <1>6 DEF SoleInv, SoleDialogue
<1>7. Before("work_type") = Before("pay") \cup {"pay"}
  BY <1>2, BeforeSteps, NextSteps
<1>8. SoleDialogue'
  BY <1>1, <1>5, <1>6, <1>7 DEF SoleDialogue
<1> QED BY <1>1, <1>5, <1>6, <1>8 DEF SoleInv, NoData, StoredRight, tables

LEMMA AsksAgainSole ==
    ASSUME TypeOK, SoleInv, NEW f \in ToSet(Steps), step = f, AsksAgain(f)
    PROVE  SoleInv' /\ StoredRight
<1>1. AtText /\ step # "none" /\ step # "confirm"
  BY NotAtText DEF AtText
<1> QED BY <1>1 DEF AsksAgain, SoleInv, SoleDialogue, NoData, AtText, StoredRight, tables

LEMMA AnswersSole ==
    ASSUME TypeOK, SoleInv, NEW t,
           PlainAnswer(t) \/ DigitsAnswer(t) \/ event_pay_received(t) \/ event_manager_received(t)
    PROVE  SoleInv' /\ StoredRight
<1>1. CASE PlainAnswer(t)
  BY <1>1, PlainIs, TextSole
<1>2. CASE DigitsAnswer(t)
  BY <1>2, DigitsIs, TextSole, AsksAgainSole
<1>3. CASE event_manager_received(t)
  BY <1>3, TextSole, NineSteps DEF event_manager_received
<1> QED BY <1>1, <1>2, <1>3, PaySole

LEMMA ConfirmSole ==
    ASSUME TypeOK, SoleInv, NEW m, event_confirm(m)
    PROVE  SoleInv' /\ StoredRight
<1>0. step = "confirm" /\ ~AtText
  BY NotAtText DEF event_confirm
<1>1. CASE /\ ~draft.on /\ step' = "none" /\ StillMixed("none", editing)
           /\ UNCHANGED <<tables, editing, draft, target>>
  <2>1. draft' = NoDraft /\ draft = NoDraft
    BY <1>1 DEF SoleInv, NoData
  <2>2. ~mixed' => editing = {}
    BY <1>0, <1>1 DEF StillMixed, SoleInv, SoleDialogue, TypeOK
  <2>3. SoleInv'
    BY <1>1, <2>1, <2>2, IdleSole, MixedSole
  <2> QED BY <1>1, <2>3 DEF StoredRight, tables
<1>2. CASE (\E e \in Unused : create_event(e, draft.wrong)) /\ Ends("none", editing)
  <2>1. PICK e \in Unused : create_event(e, draft.wrong)
    BY <1>2
  <2>2. ~mixed => draft.wrong = {}
    BY DEF SoleInv, SoleDialogue
  <2>3. mixed \/ \A d \in EventIds : wrong'[d] \subseteq wrong[d]
    BY <2>1, <2>2 DEF create_event, TypeOK
  <2> QED BY <1>0, <1>2, <2>2, <2>3, RegEndsSole DEF StoredRight
<1>3. CASE UNCHANGED tables /\ Ends("none", editing)
  BY <1>0, <1>3, RegEndsSole DEF StoredRight, tables
<1> QED BY <1>1, <1>2, <1>3 DEF event_confirm

LEMMA CancelSole ==
    ASSUME TypeOK, SoleInv, NEW ms, event_cancel(ms) \/ edit_cancel(ms)
    PROVE  SoleInv' /\ StoredRight
BY RegEndsSole, EditEndsSole DEF event_cancel, edit_cancel, StoredRight, tables

LEMMA EditStartSole ==
    ASSUME TypeOK, SoleInv, NEW f, NEW m, NEW e \in EventIds, EditStart(f, m, e)
    PROVE  SoleInv' /\ StoredRight
<1>1. CASE UNCHANGED <<editing, target, asked, mixed>>
  BY <1>1, QuietSole DEF EditStart, dialogue, tables
<1>2. CASE /\ target' = e /\ editing' = editing \cup {f} /\ asked' = Question(f, e)
           /\ mixed' = (mixed \/ ~Idle)
  <2>1. UNCHANGED <<tables, step, draft>>
    BY DEF EditStart
  <2>2. e # 0
    BY DEF EventIds
  <2>3. ~mixed' => step' = "none" /\ editing' = {f} /\ ~AtText'
    BY <1>2, <2>1, NineSteps DEF Idle, AtText
  <2>4. SoleDialogue'
    BY <1>2, <2>1, <2>2, <2>3 DEF SoleDialogue, SoleInv
  <2> QED BY <2>1, <2>4 DEF SoleInv, NoData, StoredRight, tables
<1> QED BY <1>1, <1>2 DEF EditStart

LEMMA EditReceivedSole ==
    ASSUME TypeOK, SoleInv, NEW f, NEW valid, NEW saved, EditReceived(f, valid, saved)
    PROVE  SoleInv' /\ StoredRight
<1>1. f \in editing /\ ~AtText
  BY DEF EditReceived, Reaches, FirstEditing
<1>2. ~mixed => step = "none" /\ editing = {f} /\ target # 0 /\ asked = Question(f, target)
  BY <1>1 DEF SoleInv, SoleDialogue
<1>3. CASE asked' = Question(f, target)
           /\ UNCHANGED <<wrong, msgs, step, editing, draft, target, mixed>>
  <2>1. ~AtText'
    BY <1>1, <1>3 DEF AtText
  <2>2. SoleDialogue'
    BY <1>2, <1>3, <2>1 DEF SoleInv, SoleDialogue
  <2> QED BY <1>3, <2>2 DEF SoleInv, NoData, StoredRight
<1>4. CASE /\ wrong' = [e \in EventIds |->
                IF e # target \/ events[e] # "row" THEN wrong[e]
                ELSE IF asked = Question(f, e) THEN wrong[e] \ {f}
                ELSE wrong[e] \cup {f}]
           /\ Ends(step, editing \ {f})
  <2>1. ~mixed => \A e \in EventIds : wrong'[e] \subseteq wrong[e]
    BY <1>2, <1>4
  <2> QED BY <1>1, <1>4, <2>1, EditEndsSole DEF StoredRight
<1>5. CASE UNCHANGED wrong /\ Ends(step, editing \ {f})
  BY <1>1, <1>5, EditEndsSole DEF StoredRight
<1> QED BY <1>3, <1>4, <1>5 DEF EditReceived

LEMMA EditsSole ==
    ASSUME TypeOK, SoleInv, NEW t, EditAction(t)
    PROVE  SoleInv' /\ StoredRight
BY EditIs, EditStartSole, EditReceivedSole

LEMMA MenusSole ==
    ASSUME TypeOK, SoleInv, Menus
    PROVE  SoleInv' /\ StoredRight
<1>1. UNCHANGED <<dialogue, wrong>>
  <2>1. CASE start \/ \E m \in Slots, e \in EventIds : event_delete_confirm(m, e)
    BY <2>1 DEF start, event_delete_confirm, Draws, tables
  <2>2. CASE \/ \E m \in Slots : MenuAction(m)
             \/ \E m \in Slots, e \in EventIds : EventAction(m, e)
    BY <2>2, MenusDraw, EventMenusDraw DEF Draws, tables
  <2> QED BY <2>1, <2>2, Zenon DEF Menus, MenuAction, EventAction
<1> QED BY <1>1, QuietSole

LEMMA OthersSole ==
    ASSUME TypeOK, SoleInv,
           \/ \E e \in EventIds : \/ ApiCreate(e)
                                  \/ \E f \in EditFields : ApiUpdate(e, f)
                                  \/ ApiDelete(e)
           \/ Restart
           \/ UNCHANGED vars
    PROVE  SoleInv' /\ StoredRight
<1>1. CASE Restart
  BY <1>1, IdleSole, NoDraftIs DEF Restart, StoredRight, tables
<1>2. CASE \E e \in EventIds : \/ ApiCreate(e)
                               \/ \E f \in EditFields : ApiUpdate(e, f)
                               \/ ApiDelete(e)
  <2>1. PICK e \in EventIds : \/ ApiCreate(e)
                              \/ \E f \in EditFields : ApiUpdate(e, f)
                              \/ ApiDelete(e)
    BY <1>2
  <2>2. UNCHANGED dialogue
    BY <2>1 DEF ApiCreate, ApiUpdate, ApiDelete
  <2>3. SoleInv'
    BY <2>2 DEF SoleInv, SoleDialogue, NoData, AtText, dialogue
  <2>4. \A d \in EventIds : wrong'[d] \subseteq wrong[d]
    BY <2>1 DEF ApiCreate, ApiUpdate, ApiDelete, create_event, TypeOK
  <2> QED BY <2>2, <2>3, <2>4 DEF StoredRight, dialogue
<1>3. CASE UNCHANGED vars
  BY <1>3, QuietSole DEF vars, dialogue
<1> QED BY <1>1, <1>2, <1>3

LEMMA SoleStep == TypeOK /\ SoleInv /\ [Next]_vars => SoleInv' /\ StoredRight
<1> SUFFICES ASSUME TypeOK, SoleInv, [Next]_vars PROVE SoleInv' /\ StoredRight
  OBVIOUS
<1>1. CASE Dialogues
  <2>1. CASE \E m \in Slots : event_register_start(m) \/ event_confirm(m)
    BY <2>1, RegStartSole, ConfirmSole
  <2>2. CASE \E t \in Texts :
                \/ PlainAnswer(t) \/ DigitsAnswer(t) \/ event_pay_received(t)
                \/ event_manager_received(t) \/ EditAction(t)
    BY <2>2, AnswersSole, EditsSole
  <2>3. CASE cancel
    BY <2>3, CancelSole DEF cancel
  <2> QED BY <1>1, <2>1, <2>2, <2>3, DialoguesAre, CancelSole
<1> QED BY <1>1, MenusSole, OthersSole DEF Next

LEMMA SoleHolds == Spec => []SoleInv
<1>1. Init => SoleInv
  BY NoDraftIs, NineSteps DEF Init, SoleInv, SoleDialogue, NoData, AtText
<1> QED BY <1>1, SoleStep, TypesHold, PTL DEF Spec

\* The types hold, and a dialogue that has the chat to itself has the answers
\* that event_confirm and the UPDATEs of the edit conversations read without
\* looking (admin_bot.py).
THEOREM DialoguesKeepData == Spec => []DeskInv
<1>1. SoleInv => DialogueKeepsData
  <2> SUFFICES ASSUME SoleInv, ~mixed PROVE DialogueKeepsData
    BY DEF DialogueKeepsData
  <2>1. editing # {} =>
           /\ target # 0
           /\ asked \in {Nothing} \cup {Question(f, target) : f \in editing}
    BY DEF SoleInv, SoleDialogue
  <2> QED BY <2>1 DEF SoleInv, SoleDialogue, DialogueKeepsData
<1>2. TypeOK /\ SoleInv => DeskInv
  BY <1>1 DEF DeskInv
<1> QED BY <1>2, TypesHold, SoleHolds, PTL

\* While one dialogue is open, a text is stored as the answer to the question
\* asked last, in the event that question was about: an old button, a text that
\* was refused or an event another process deleted does not lead it elsewhere.
THEOREM TextsGoWhereAsked == Spec => AloneIsRight
<1>1. TypeOK /\ SoleInv /\ [Next]_vars =>
        [mixed \/ /\ draft'.wrong \subseteq draft.wrong
                  /\ \A e \in EventIds : wrong'[e] \subseteq wrong[e]]_vars
  BY SoleStep DEF StoredRight
<1> QED BY <1>1, TypesHold, SoleHolds, PTL DEF Spec, AloneIsRight
===============================================================================
