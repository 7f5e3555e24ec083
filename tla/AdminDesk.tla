------------------------------ MODULE AdminDesk ------------------------------
(***************************************************************************)
(* The administrator's chat with the admin bot: the menu messages, whose   *)
(* buttons stay pressable until the message changes, and the nine          *)
(* dialogues that register an event and edit one field of an event.        *)
(*                                                                         *)
(* Each dialogue is a ConversationHandler of its own; a text is offered to *)
(* them in the order main() adds them, the first one in a state that takes *)
(* text gets it, and all of them share context.user_data.  Texts are       *)
(* abstracted to their shape and to the question they answer: the one the  *)
(* bot asked last.  Nothing of a dialogue survives a restart; the          *)
(* messages do.  Applications and attendance belong to WorkLifecycle, so   *)
(* what the screens read of them is any of their states.                   *)
(***************************************************************************)
EXTENDS Integers, Sequences, FiniteSets, SequencesExt

CONSTANTS EditFields,   \* the fields that can be edited, of EditOrder
          Slots,        \* bound: messages of the chat with buttons
          OldMenus,     \* main menus an earlier version of the bot sent
          MaxEvents     \* bound: events ever created

Steps == <<"title", "date", "start_time", "end_time", "location", "pay",
           "work_type", "dress", "manager">>
EditOrder == <<"title", "date", "time", "location", "pay", "work_type",
               "dress", "manager">>

ASSUME DeskAssumption ==
    /\ EditFields \subseteq ToSet(EditOrder)
    /\ OldMenus \subseteq Slots
    /\ MaxEvents \in Nat

VARIABLES
    admin,      \* whether the person has a row in admin_users
    events,     \* the events table: "free" (id unused), "row" or "gone"
    wrong,      \* history: fields of an event that answer another question
    msgs,       \* what each message shows, and the events its buttons name
    step,       \* the state of event_conv
    editing,    \* the edit conversations waiting for a text
    draft,      \* user_data['event_data']: the keys present
    target,     \* user_data['edit_event_id'], 0 if absent
    asked,      \* history: the question of the last prompt
    mixed       \* history: two dialogues were open at once since none was

vars == <<admin, events, wrong, msgs, step, editing, draft, target, asked, mixed>>
dialogue == <<step, editing, draft, target, asked, mixed>>
tables == <<admin, events, wrong>>

-----------------------------------------------------------------------------
EventIds == 1 .. MaxEvents
Present == {e \in EventIds : events[e] = "row"}
Unused == {e \in EventIds : events[e] = "free"}

NoDraft == [on |-> FALSE, keys |-> {}, wrong |-> {}, huge |-> FALSE]
EmptyDraft == [NoDraft EXCEPT !.on = TRUE]
Nothing == [field |-> "none", event |-> 0]
Question(f, e) == [field |-> f, event |-> e]

(* The screens, the buttons each always has, and those it has once for     *)
(* every event it lists.                                                   *)
Fixed == [
    main          |-> {"event_list", "event_register", "manage_applications",
                       "manage_attendance", "manage_workers",
                       "export_payroll", "blockchain_menu"},
    no_events     |-> {"event_register"},
    event_list    |-> {"main_menu"},
    event_detail  |-> {"event_list", "main_menu"},
    event_delete  |-> {},
    deleted       |-> {"event_list"},
    event_edit    |-> {},
    reg_prompt    |-> {"event_cancel"},
    reg_summary   |-> {"event_confirm", "event_cancel"},
    registered    |-> {"event_list", "main_menu"},
    edit_prompt   |-> {"edit_cancel"},
    edited        |-> {},
    applications  |-> {"main_menu"},
    app_list      |-> {"manage_applications"},
    app_pending   |-> {},
    app_closed    |-> {},
    notice        |-> {"main_menu"},
    attendances   |-> {"main_menu"},
    att_none      |-> {"manage_attendance"},
    att_list      |-> {"manage_attendance", "main_menu"},
    exports       |-> {"main_menu"},
    chain         |-> {"blockchain_records", "blockchain_transactions",
                       "blockchain_verify", "main_menu"},
    chain_none    |-> {"blockchain_menu"},
    dead          |-> {}]

PerEvent == [s \in DOMAIN Fixed |->
    CASE s = "event_list"    -> {"event_detail"}
      [] s = "event_detail"  -> {"app_list", "event_edit", "event_delete"}
      [] s = "event_delete"  -> {"event_delete_confirm", "event_detail"}
      [] s = "event_edit"    -> {"event_detail"} \cup EditFields
      [] s = "edited"        -> {"event_detail"}
      [] s = "applications"  -> {"app_list"}
      [] s = "app_list"      -> {"app_detail"}
      [] s = "app_pending"   -> {"app_confirm", "app_waitlist", "app_reject", "app_list"}
      [] s = "app_closed"    -> {"app_list"}
      [] s = "attendances"   -> {"attendance_list"}
      [] s = "att_list"      -> {"attendance_detail"}
      [] s = "exports"       -> {"export_event_payroll"}
      [] OTHER -> {}]

Pressed(m, button) == button \in Fixed[msgs[m].at]
PressedOn(m, button, e) == e \in msgs[m].evs /\ button \in PerEvent[msgs[m].at]

Dead == [at |-> "dead", evs |-> {}]
Screen(s, E) == [at |-> s, evs |-> E]
Shows(m, s, E) == msgs' = [msgs EXCEPT ![m] = Screen(s, E)]

\* A handler that only draws: the message becomes the screen.
Draws(m, s, E) == Shows(m, s, E) /\ UNCHANGED <<tables, dialogue>>

\* A new message takes a slot whose message has no buttons left.
Sends(ms, s, E) ==
    \E n \in Slots : /\ ms[n] = Dead
                     /\ msgs' = [ms EXCEPT ![n] = Screen(s, E)]

-----------------------------------------------------------------------------
(* Administrators and menus.                                               *)

\* Registers whoever is not registered, and ends the command.
require_admin == ~admin /\ admin' = TRUE

\* /start: of a registered administrator it reads statistics by column name
\* from plain tuples and raises.
start == require_admin /\ UNCHANGED <<events, wrong, msgs, dialogue>>

\* The old message is deleted before the same statistics raise.
main_menu(m) == Pressed(m, "main_menu") /\ Draws(m, "dead", {})

event_list(m) ==
    /\ Pressed(m, "event_list")
    /\ IF Present = {} THEN Draws(m, "no_events", {})
                       ELSE Draws(m, "event_list", Present)

event_detail(m, e) ==
    /\ PressedOn(m, "event_detail", e)
    /\ IF e \in Present THEN Draws(m, "event_detail", {e}) ELSE Draws(m, "dead", {})

event_delete(m, e) ==
    /\ PressedOn(m, "event_delete", e)
    /\ IF e \in Present THEN Draws(m, "event_delete", {e}) ELSE Draws(m, "dead", {})

\* The deletion fails while other rows refer to the event.
event_delete_confirm(m, e) ==
    /\ PressedOn(m, "event_delete_confirm", e)
    /\ \/ /\ e \in Present
          /\ events' = [events EXCEPT ![e] = "gone"]
          /\ Shows(m, "deleted", {})
          /\ UNCHANGED <<admin, wrong, dialogue>>
       \/ Draws(m, "dead", {})

event_edit(m, e) ==
    /\ PressedOn(m, "event_edit", e)
    /\ IF e \in Present THEN Draws(m, "event_edit", {e}) ELSE Draws(m, "dead", {})

\* Lists the events that are open, whichever those are.
manage_applications(m) ==
    /\ Pressed(m, "manage_applications")
    /\ \E E \in SUBSET Present :
          IF E = {} THEN Draws(m, "dead", {}) ELSE Draws(m, "applications", E)

\* Without applications the list has no row to press.
app_list(m, e) ==
    /\ PressedOn(m, "app_list", e)
    /\ IF e \in Present THEN \E E \in SUBSET {e} : Draws(m, "app_list", E)
                        ELSE Draws(m, "dead", {})

\* An application that was ever confirmed has a confirmed_at, a datetime the
\* handler searches for a "." like a string: it raises and draws nothing.
app_detail(m, e) ==
    /\ PressedOn(m, "app_detail", e)
    /\ \/ e \in Present /\ \E s \in {"app_pending", "app_closed"} : Draws(m, s, {e})
       \/ Draws(m, "dead", {})

app_confirm(m, e) ==
    /\ PressedOn(m, "app_confirm", e)
    /\ \/ e \in Present /\ Draws(m, "notice", {})
       \/ Draws(m, "dead", {})

app_waitlist(m, e) == PressedOn(m, "app_waitlist", e) /\ Draws(m, "dead", {})
app_reject(m, e) == PressedOn(m, "app_reject", e) /\ Draws(m, "dead", {})

\* The buttons of single workers and of single attendances raise on tuples.
manage_workers(m) == Pressed(m, "manage_workers") /\ Draws(m, "notice", {})

manage_attendance(m) ==
    /\ Pressed(m, "manage_attendance")
    /\ IF Present = {} THEN Draws(m, "dead", {}) ELSE Draws(m, "attendances", Present)

attendance_list(m, e) ==
    /\ PressedOn(m, "attendance_list", e)
    /\ IF e \in Present THEN Draws(m, "att_none", {}) \/ Draws(m, "att_list", {e})
                        ELSE Draws(m, "dead", {})

\* Completed events, or all of them when none is completed.
export_payroll(m) ==
    /\ Pressed(m, "export_payroll")
    /\ IF Present = {} THEN Draws(m, "dead", {})
                       ELSE \E E \in SUBSET Present \ {{}} : Draws(m, "exports", E)

export_event_payroll(m, e) ==
    /\ PressedOn(m, "export_event_payroll", e)
    /\ IF e \in Present THEN Draws(m, "notice", {}) ELSE Draws(m, "dead", {})

blockchain_menu(m) == Pressed(m, "blockchain_menu") /\ Draws(m, "chain", {})

\* The three lists raise on tuples as soon as there is something to list.
blockchain_records(m) == Pressed(m, "blockchain_records") /\ Draws(m, "chain_none", {})
blockchain_transactions(m) ==
    Pressed(m, "blockchain_transactions") /\ Draws(m, "chain_none", {})
blockchain_verify(m) ==
    /\ Pressed(m, "blockchain_verify")
    /\ Present = {}
    /\ Draws(m, "chain_none", {})

Menus ==
    \/ start
    \/ \E m \in Slots :
          \/ main_menu(m) \/ event_list(m) \/ manage_applications(m)
          \/ manage_workers(m) \/ manage_attendance(m) \/ export_payroll(m)
          \/ blockchain_menu(m) \/ blockchain_records(m)
          \/ blockchain_transactions(m) \/ blockchain_verify(m)
          \/ \E e \in EventIds :
                \/ event_detail(m, e) \/ event_delete(m, e)
                \/ event_delete_confirm(m, e) \/ event_edit(m, e)
                \/ app_list(m, e) \/ app_detail(m, e) \/ app_confirm(m, e)
                \/ app_waitlist(m, e) \/ app_reject(m, e)
                \/ attendance_list(m, e) \/ export_event_payroll(m, e)

-----------------------------------------------------------------------------
(* Dialogues.  A text is four digits, an amount beyond an INTEGER once it  *)
(* is multiplied by 10000, or anything else.                               *)
Texts == {"four_digits", "huge", "words"}

Place(s, x) == CHOOSE i \in DOMAIN s : s[i] = x
Before(f) == {Steps[i] : i \in 1 .. Place(Steps, f) - 1}
AfterStep(f) == IF f = "manager" THEN "confirm" ELSE Steps[Place(Steps, f) + 1]
FieldOf(f) == IF f \in {"start_time", "end_time"} THEN "time" ELSE f

\* Which dialogue a text reaches: event_conv is added first, then the edit
\* conversations in their order.
AtText == step \in ToSet(Steps)
FirstEditing(f) ==
    /\ f \in editing
    /\ \A g \in editing : Place(EditOrder, f) <= Place(EditOrder, g)
Reaches(f) == ~AtText /\ FirstEditing(f)

Idle == step = "none" /\ editing = {}
\* mixed is over when the last dialogue is.
StillMixed(s, ed) == mixed' = (mixed /\ ~(s = "none" /\ ed = {}))

\* user_data.clear() and the end of one dialogue.
Ends(s, ed) ==
    /\ step' = s /\ editing' = ed
    /\ draft' = NoDraft /\ target' = 0
    /\ asked' = Nothing
    /\ StillMixed(s, ed)

event_register_start(m) ==
    /\ Pressed(m, "event_register")
    /\ step = "none"
    /\ step' = "title"
    /\ draft' = EmptyDraft
    /\ asked' = Question("title", 0)
    /\ mixed' = (mixed \/ ~Idle)
    /\ Shows(m, "reg_prompt", {})
    /\ UNCHANGED <<tables, editing, target>>

\* The text is stored under the key of the step, whatever it was meant for.
Stored(f) ==
    [draft EXCEPT !.keys = @ \cup {f},
                  !.wrong = IF asked = Question(f, 0) THEN @
                            ELSE @ \cup ({FieldOf(f)} \cap EditFields)]

AsksAgain(f) ==
    /\ asked' = Question(f, 0)
    /\ UNCHANGED <<tables, msgs, step, editing, draft, target, mixed>>

\* Without event_data the assignment raises KeyError and the state stays.
TextReceived(f, t) ==
    /\ step = f
    /\ draft.on
    /\ draft' = Stored(f)
    /\ step' = AfterStep(f)
    /\ asked' = IF f = "manager" THEN Nothing ELSE Question(AfterStep(f), 0)
    /\ UNCHANGED <<tables, editing, target, mixed>>

FourDigitsReceived(f, t) ==
    IF t = "four_digits" THEN TextReceived(f, t) /\ UNCHANGED msgs
                         ELSE step = f /\ AsksAgain(f)

\* Mutant: the title's handler asks for the date and returns a later state.
FaultyTitleReceived(t) ==
    /\ step = "title" /\ draft.on
    /\ draft' = Stored("title")
    /\ step' = "location" /\ asked' = Question("date", 0)
    /\ UNCHANGED <<tables, msgs, editing, target, mixed>>

event_title_received(t) == TextReceived("title", t) /\ UNCHANGED msgs
event_date_received(t) == FourDigitsReceived("date", t)
event_start_time_received(t) == FourDigitsReceived("start_time", t)
event_end_time_received(t) == FourDigitsReceived("end_time", t)
event_location_received(t) == TextReceived("location", t) /\ UNCHANGED msgs
\* The first number times 10000, if there is one: pay may not fit its column.
event_pay_received(t) ==
    /\ step = "pay"
    /\ draft.on
    /\ draft' = [Stored("pay") EXCEPT !.huge = (t = "huge")]
    /\ step' = "work_type"
    /\ asked' = Question("work_type", 0)
    /\ UNCHANGED <<tables, msgs, editing, target, mixed>>

event_work_type_received(t) == TextReceived("work_type", t) /\ UNCHANGED msgs
event_dress_received(t) == TextReceived("dress", t) /\ UNCHANGED msgs
event_manager_received(t) ==
    TextReceived("manager", t) /\ Sends(msgs, "reg_summary", {})

\* The row gets the smallest unused id.
create_event(e, columns) ==
    /\ e \in Unused /\ \A u \in Unused : e <= u
    /\ events' = [events EXCEPT ![e] = "row"]
    /\ wrong' = [wrong EXCEPT ![e] = columns]

\* Without data the dialogue ends and nothing is cleared; an insert that is
\* refused (the pay, or the short code is taken) is only told.
event_confirm(m) ==
    /\ Pressed(m, "event_confirm")
    /\ step = "confirm"
    /\ \/ /\ ~draft.on
          /\ step' = "none"
          /\ asked' = Nothing
          /\ StillMixed("none", editing)
          /\ Shows(m, "dead", {})
          /\ UNCHANGED <<tables, editing, draft, target>>
       \/ /\ draft.on /\ ~draft.huge
          /\ \E e \in Unused : create_event(e, draft.wrong)
          /\ Shows(m, "registered", {})
          /\ UNCHANGED admin
          /\ Ends("none", editing)
       \/ /\ draft.on
          /\ Shows(m, "dead", {})
          /\ UNCHANGED tables
          /\ Ends("none", editing)

event_cancel(ms) ==
    /\ step # "none"
    /\ msgs' = ms
    /\ UNCHANGED tables
    /\ Ends("none", editing)

\* An edit conversation begins while its event exists.  Pressing it again
\* while it waits for its text does nothing.
EditStart(f, m, e) ==
    /\ PressedOn(m, f, e)
    /\ f \notin editing
    /\ UNCHANGED <<tables, step, draft>>
    /\ IF e \in Present
       THEN /\ target' = e
            /\ editing' = editing \cup {f}
            /\ asked' = Question(f, e)
            /\ mixed' = (mixed \/ ~Idle)
            /\ Shows(m, "edit_prompt", {})
       ELSE Shows(m, "dead", {}) /\ UNCHANGED <<editing, target, asked, mixed>>

\* UPDATE events SET f WHERE id = target touches no row when the event is gone
\* or the target was cleared; the administrator is told it was changed.
EditReceived(f, valid, saved) ==
    /\ Reaches(f)
    /\ UNCHANGED <<admin, events>>
    /\ \/ /\ ~valid
          /\ asked' = Question(f, target)
          /\ UNCHANGED <<wrong, msgs, step, editing, draft, target, mixed>>
       \/ /\ valid /\ saved
          /\ wrong' = [e \in EventIds |->
                IF e # target \/ events[e] # "row" THEN wrong[e]
                ELSE IF asked = Question(f, e) THEN wrong[e] \ {f}
                ELSE wrong[e] \cup {f}]
          /\ IF target = 0 THEN UNCHANGED msgs ELSE Sends(msgs, "edited", {target})
          /\ Ends(step, editing \ {f})
       \/ /\ valid /\ ~saved
          /\ UNCHANGED <<wrong, msgs>>
          /\ Ends(step, editing \ {f})

Conversation(f, t, valid, saved) ==
    \/ EditReceived(f, valid, saved)
    \/ \E m \in Slots, e \in EventIds : EditStart(f, m, e)

edit_title_conv(t) == Conversation("title", t, TRUE, TRUE)
edit_date_conv(t) == Conversation("date", t, t = "four_digits", TRUE)
edit_time_conv(t) == Conversation("time", t, TRUE, TRUE)
edit_location_conv(t) == Conversation("location", t, TRUE, TRUE)
edit_pay_conv(t) == Conversation("pay", t, TRUE, t # "huge")
edit_work_type_conv(t) == Conversation("work_type", t, TRUE, TRUE)
edit_dress_conv(t) == Conversation("dress", t, TRUE, TRUE)
edit_manager_conv(t) == Conversation("manager", t, TRUE, TRUE)

\* Every edit conversation has the same pattern and the same command, so it is
\* the first one waiting that ends, not the one whose button was pressed.
edit_cancel(ms) ==
    /\ \E f \in editing : FirstEditing(f) /\ Ends(step, editing \ {f})
    /\ msgs' = ms
    /\ UNCHANGED tables

cancel ==
    IF step # "none" THEN event_cancel(msgs) ELSE edit_cancel(msgs)

Dialogues ==
    \/ cancel
    \/ \E m \in Slots :
          \/ event_register_start(m)
          \/ event_confirm(m)
          \/ Pressed(m, "event_cancel") /\ event_cancel([msgs EXCEPT ![m] = Dead])
          \/ Pressed(m, "edit_cancel") /\ edit_cancel([msgs EXCEPT ![m] = Dead])
    \/ \E t \in Texts :
          \/ event_title_received(t) \/ event_date_received(t)
          \/ event_start_time_received(t) \/ event_end_time_received(t)
          \/ event_location_received(t) \/ event_pay_received(t)
          \/ event_work_type_received(t) \/ event_dress_received(t)
          \/ event_manager_received(t)
          \/ edit_title_conv(t) \/ edit_date_conv(t) \/ edit_time_conv(t)
          \/ edit_location_conv(t) \/ edit_pay_conv(t)
          \/ edit_work_type_conv(t) \/ edit_dress_conv(t) \/ edit_manager_conv(t)

-----------------------------------------------------------------------------
(* The API process works on the same table, and the bot may be restarted.  *)

ApiCreate(e) == create_event(e, {}) /\ UNCHANGED <<admin, msgs, dialogue>>

\* PATCH writes the fields it was given: as good as one PATCH for each.
ApiUpdate(e, f) ==
    /\ e \in Present
    /\ wrong' = [wrong EXCEPT ![e] = @ \ {f}]
    /\ UNCHANGED <<admin, events, msgs, dialogue>>

ApiDelete(e) ==
    /\ e \in Present
    /\ events' = [events EXCEPT ![e] = "gone"]
    /\ UNCHANGED <<admin, wrong, msgs, dialogue>>

\* Mutant: the states of the dialogues are persisted, user_data is not.
FaultyRestart ==
    /\ draft' = NoDraft /\ target' = 0
    /\ UNCHANGED <<tables, msgs, step, editing, asked, mixed>>

Restart ==
    /\ step' = "none" /\ editing' = {}
    /\ draft' = NoDraft /\ target' = 0
    /\ mixed' = FALSE
    /\ UNCHANGED <<tables, msgs, asked>>

Init ==
    /\ admin = FALSE
    /\ events = [e \in EventIds |-> "free"]
    /\ wrong = [e \in EventIds |-> {}]
    /\ msgs = [m \in Slots |-> IF m \in OldMenus THEN Screen("main", {}) ELSE Dead]
    /\ step = "none" /\ editing = {}
    /\ draft = NoDraft /\ target = 0
    /\ asked = Nothing /\ mixed = FALSE

Next ==
    \/ Menus
    \/ Dialogues
    \/ \E e \in EventIds :
          \/ ApiCreate(e)
          \/ \E f \in EditFields : ApiUpdate(e, f)
          \/ ApiDelete(e)
    \/ Restart

Spec == Init /\ [][Next]_vars

-----------------------------------------------------------------------------
TypeOK ==
    /\ admin \in BOOLEAN
    /\ events \in [EventIds -> {"free", "row", "gone"}]
    /\ wrong \in [EventIds -> SUBSET EditFields]
    /\ msgs \in [Slots -> [at : DOMAIN Fixed, evs : SUBSET EventIds]]
    /\ step \in {"none", "confirm"} \cup ToSet(Steps)
    /\ editing \in SUBSET EditFields
    /\ draft \in [on : BOOLEAN, keys : SUBSET ToSet(Steps),
                  wrong : SUBSET EditFields, huge : BOOLEAN]
    /\ target \in EventIds \cup {0}
    /\ asked \in [field : {"none"} \cup ToSet(Steps) \cup ToSet(EditOrder),
                  event : EventIds \cup {0}]
    /\ mixed \in BOOLEAN

\* A dialogue that had the chat to itself still has its answers: a registration
\* the answer of every step it has passed, an edit the event it was begun for.
\* event_confirm and the UPDATEs read them without looking (admin_bot.py).
DialogueKeepsData == ~mixed =>
    /\ AtText => draft.on /\ draft.keys = Before(step)
    /\ step = "confirm" => draft.on /\ draft.keys = ToSet(Steps)
    /\ editing # {} => target # 0 /\ asked \in {Nothing} \cup {Question(f, target) : f \in editing}

\* What the dialogues rely on: the types, and the answers they have.
DeskInv == TypeOK /\ DialogueKeepsData

\* While one dialogue at a time is open, every text is stored as the answer to
\* the question the bot asked last, in the event that question was about,
\* whatever old buttons, cancelled or refused texts, deletions by others and
\* restarts there were before.
AloneIsRight ==
    [][mixed \/ /\ draft'.wrong \subseteq draft.wrong
                /\ \A e \in EventIds : wrong'[e] \subseteq wrong[e]]_vars

-----------------------------------------------------------------------------
(* What documents and comments say and the code does not do.               *)

\* "메인 메뉴로 돌아가기" (back to the main menu), admin_bot.py:2644.
MainMenuComes ==
    [][\A m \in Slots : main_menu(m) => msgs'[m].at = "main"]_vars

\* An event's fields hold what was typed when they were asked for: "날짜 수정
\* 처리" (handling the date's correction), admin_bot.py:865.
AnswersInPlace == \A e \in EventIds : wrong[e] = {}
=============================================================================
