----------------------------- MODULE WorkerChat -----------------------------
(***************************************************************************)
(* A person's chat with the worker bot: the nine questions of the          *)
(* registration, the correction of one field, and the two commands that    *)
(* ask for an attendance code.                                             *)
(*                                                                         *)
(* The four dialogues are ConversationHandlers that share                  *)
(* context.user_data; a message goes to the first of them, in the order    *)
(* main() adds them, whose state takes it.  A handler that raises leaves   *)
(* its dialogue where it was.  Texts are abstracted to their shape and to  *)
(* the question they answer: the one the bot asked last.  A button that    *)
(* was shown may be pressed at any time later.  The bot handles one update *)
(* at a time; while it awaits the download of a corrected photo, the same  *)
(* person may register, withdraw and upload a photo on the aside, and the    *)
(* bot may be restarted at any time.                                       *)
(***************************************************************************)
EXTENDS Integers, Sequences, FiniteSets, SequencesExt

CONSTANT MaxFaults    \* bound: downloads, renames, uploads, withdrawals that fail

ASSUME ChatAssumption == MaxFaults \in Nat

Steps == <<"name", "birth", "phone", "residence", "face_photo", "driver",
           "security", "bank", "account", "contract">>
Fields == ToSet(Steps) \ {"contract"}
ByButton == {"driver", "security"}          \* answered by a button
Typed == Fields \ (ByButton \cup {"face_photo"})
Codes == {"check_in", "check_out"}

VARIABLES
    worker,     \* whether the person has a row in workers
    missing,    \* the fields that a row made by the bot lacks
    photo,      \* face_photo_file_id: "none", or who wrote the file it names
    disk,       \* the row's files that exist: "bot" (worker_<id>.jpg), "web"
    upload,     \* a web upload awaits its body: "no", "row", or row is "gone"
    leaving,    \* a withdrawal removed the file and has the row to delete
    fetch,      \* a correction of the photo: "no", the "row" was read and its
                \* file removed, the new file is "saved", was "taken" by the
                \* web since, or the row is "gone"
    cut,        \* history: a replacement was cut off, and none ended since
    faults,     \* failures so far
    step,       \* the state of reg_conv
    keys,       \* the answers in user_data
    editing,    \* whether edit_conv waits for a value
    field,      \* user_data['edit_field']
    codes,      \* the code dialogues that wait for their code
    shown,      \* the buttons shown so far
    asked,      \* history: the question of the last prompt
    mixed,      \* history: two dialogues were open at once since none was
    misfiled    \* history: an answer was stored as another's while one dialogue
                \* was open

vars == <<worker, missing, photo, disk, upload, leaving, fetch, cut, faults, step,
          keys, editing, field, codes, shown, asked, mixed, misfiled>>
row == <<worker, missing, photo, disk>>
replacing == <<upload, leaving, fetch, cut>>
aside == <<replacing, faults>>
dialogue == <<step, keys, editing, field, codes>>
history == <<asked, mixed, misfiled>>

-----------------------------------------------------------------------------
Place(f) == CHOOSE i \in DOMAIN Steps : Steps[i] = f
AfterStep(f) == Steps[Place(f) + 1]

Idle == step = "none" /\ ~editing /\ codes = {}
\* mixed is over when the last dialogue is.
StillMixed == mixed' = (mixed /\ ~(step' = "none" /\ ~editing' /\ codes' = {}))
Opens == mixed' = (mixed \/ ~Idle)
Shows(buttons) == shown' = shown \cup buttons

\* context.user_data.clear()
Clears == keys' = {} /\ field' = "none"

\* A typed answer or a photo is stored as the answer to f.
Files(f) == misfiled' = (misfiled \/ (asked # f /\ ~mixed))

\* "six_digits" is a birth date or a code, "phone" passes validate_phone.
Texts == {"six_digits", "phone", "words"}
Accepts(f, t) == CASE f = "birth" -> t = "six_digits"
                   [] f = "phone" -> t = "phone"
                   [] OTHER -> TRUE

Asks(f) == asked' = f /\ UNCHANGED <<mixed, misfiled>>
AsksAgain(f) == Asks(f) /\ UNCHANGED <<row, dialogue, shown>>
Fault == faults < MaxFaults /\ faults' = faults + 1

-----------------------------------------------------------------------------
(* Registration.                                                           *)

\* /start enters the registration again from any of its states, and leaves
\* user_data as it is; with a row it only shows the menu.
start ==
    /\ UNCHANGED <<row, aside, keys, editing, field, codes, misfiled>>
    /\ IF worker
       THEN Shows({"menu"}) /\ UNCHANGED <<step, asked, mixed>>
       ELSE /\ step' = "name"
            /\ asked' = "name"
            /\ IF step = "none" THEN Opens ELSE UNCHANGED mixed
            /\ UNCHANGED shown

\* One answer goes into user_data and the next question is asked.
Answered(f, buttons) ==
    /\ keys' = keys \cup {f}
    /\ step' = AfterStep(f)
    /\ asked' = AfterStep(f)
    /\ Shows(buttons)
    /\ UNCHANGED <<row, aside, editing, field, codes, mixed>>

RegText(f, t, buttons) ==
    /\ step = f
    /\ IF Accepts(f, t) THEN Answered(f, buttons) /\ Files(f)
                        ELSE AsksAgain(f) /\ UNCHANGED aside

reg_name(t) == RegText("name", t, {})

\* Mutant: the prompt for the phone number, but the state of the residence.
FaultyRegBirth(t) ==
    /\ step = "birth"
    /\ keys' = keys \cup {"birth"} /\ step' = "residence" /\ asked' = "phone"
    /\ UNCHANGED <<row, aside, editing, field, codes, shown, mixed, misfiled>>
reg_birth(t) == RegText("birth", t, {})
reg_phone(t) == RegText("phone", t, {})
reg_residence(t) == RegText("residence", t, {})

reg_face_photo ==
    /\ step = "face_photo"
    /\ \/ Answered("face_photo", {"driver"}) /\ Files("face_photo")
       \/ AsksAgain("face_photo") /\ Fault /\ UNCHANGED replacing

reg_driver_license ==
    step = "driver" /\ Answered("driver", {"security"}) /\ UNCHANGED misfiled
reg_security_cert ==
    step = "security" /\ Answered("security", {}) /\ UNCHANGED misfiled
reg_bank(t) == RegText("bank", t, {})
reg_account(t) == RegText("account", t, {"contract"})

\* The insert is refused when the telegram_id has a row already; without a
\* name or a phone number it is not tried.  The photo file gets its name after
\* the row exists, and a failure there is only logged.
Insert(found) ==
    /\ ~worker
    /\ worker' = TRUE
    /\ \/ /\ "face_photo" \in found
          /\ photo' = "bot" /\ disk' = disk \cup {"bot"}
          /\ missing' = Fields \ found
          /\ UNCHANGED aside
       \/ /\ photo' = "none" /\ UNCHANGED disk
          /\ missing' = (Fields \ found) \cup {"face_photo"}
          /\ IF "face_photo" \in found THEN Fault ELSE UNCHANGED faults
          /\ UNCHANGED replacing

RegContract(required) ==
    /\ "contract" \in shown
    /\ step = "contract"
    /\ \/ /\ required \subseteq keys /\ Insert(keys) /\ Shows({"menu"})
       \/ /\ (worker \/ ~(required \subseteq keys))
          /\ UNCHANGED <<row, aside, shown>>
    /\ Clears
    /\ step' = "none" /\ asked' = "none"
    /\ UNCHANGED <<editing, codes, misfiled>>
    /\ StillMixed

\* Mutant: user_data.get('reg_name', '') and the same for the phone number.
FaultyRegContract == RegContract({})
reg_contract == RegContract({"name", "phone"})

-----------------------------------------------------------------------------
(* Correcting one field.                                                   *)

my_info ==
    /\ "menu" \in shown
    /\ worker
    /\ Shows({"info"})
    /\ UNCHANGED <<row, aside, dialogue, history>>

edit_info ==
    /\ "info" \in shown
    /\ worker
    /\ Shows({"edits"})
    /\ UNCHANGED <<row, aside, dialogue, history>>

\* The buttons of the edit menu are ignored while a value is waited for; the
\* prompts' way back to the menu does not end the waiting.
edit_field_selected(f) ==
    /\ "edits" \in shown
    /\ ~editing
    /\ editing' = TRUE /\ field' = f
    /\ asked' = f /\ Opens
    /\ Shows({f} \cap ByButton)
    /\ UNCHANGED <<row, aside, step, keys, codes, misfiled>>

main_menu ==
    /\ worker
    /\ shown \cap ({"info", "edits"} \cup ByButton) # {}
    /\ Shows({"menu"})
    /\ UNCHANGED <<row, aside, dialogue, history>>

EditDone ==
    /\ Clears
    /\ editing' = FALSE
    /\ Shows({"menu"})
    /\ asked' = "none"
    /\ UNCHANGED <<step, codes>>
    /\ StillMixed

\* Whatever cannot be stored raises, without a word to the person: no field
\* since user_data was cleared, a choice answered by a text, no row.
EditText(t) ==
    /\ editing
    /\ UNCHANGED aside
    /\ \/ /\ field \in Typed /\ Accepts(field, t) /\ worker
          /\ missing' = missing \ {field}
          /\ UNCHANGED <<worker, photo, disk>>
          /\ Files(field)
          /\ EditDone
       \/ /\ \/ field = "face_photo"
             \/ field \in Typed /\ ~Accepts(field, t)
          /\ AsksAgain(field)
       \/ /\ \/ field \in ByButton \cup {"none"}
             \/ field \in Typed /\ Accepts(field, t) /\ ~worker
          /\ UNCHANGED <<row, dialogue, shown, history>>

\* The button's own name is not looked at: the choice goes to the field that
\* is being edited.
EditChoice ==
    /\ editing /\ worker
    /\ field \in ByButton
    /\ missing' = missing \ {field}
    /\ UNCHANGED <<worker, photo, disk, aside, misfiled>>
    /\ EditDone

\* The row's file is removed, which may be the one that a correction just saved.
Removes ==
    /\ disk' = disk \ {photo}
    /\ fetch' = IF fetch = "saved" /\ photo = "bot" THEN "taken" ELSE fetch

\* Mutant: the old file is removed once the new one is there.
FaultySaves == disk' = (disk \cup {"bot"}) \ {photo}
Saves == disk' = disk \cup {"bot"}

\* The row is read, its file is removed, and the new one is awaited.
EditPhotoBegin ==
    /\ editing
    /\ field = "face_photo"
    /\ \/ /\ worker
          /\ disk' = disk \ {photo}
          /\ fetch' = "row"
          /\ UNCHANGED <<worker, missing, photo, upload, leaving, cut, faults,
                         dialogue, shown, history>>
       \/ ~worker /\ AsksAgain(field) /\ UNCHANGED aside

PhotoSaved ==
    /\ fetch = "row"
    /\ Saves
    /\ fetch' = "saved"
    /\ UNCHANGED <<worker, missing, photo, upload, leaving, cut, faults,
                   dialogue, shown, history>>

\* The row's id was read before: without its row the update changes nothing.
PhotoStored ==
    /\ \/ /\ fetch \in {"saved", "taken"}
          /\ photo' = "bot"
          /\ missing' = missing \ {field}
          /\ cut' = (fetch = "taken")
          /\ Files(field)
       \/ /\ fetch = "gone"
          /\ UNCHANGED <<photo, missing, cut, misfiled>>
    /\ fetch' = "no"
    /\ EditDone
    /\ UNCHANGED <<worker, disk, upload, leaving, faults>>

PhotoFails ==
    /\ fetch # "no"
    /\ Fault
    /\ fetch' = "no"
    /\ cut' = (cut \/ fetch # "gone")
    /\ AsksAgain(field)
    /\ UNCHANGED <<upload, leaving>>

-----------------------------------------------------------------------------
(* Attendance codes.  What a code does is WorkLifecycle's; a code that is  *)
(* found but whose sender has no row raises.                               *)

AskCode(c) ==
    /\ c \notin codes
    /\ codes' = codes \cup {c}
    /\ asked' = c /\ Opens
    /\ UNCHANGED <<row, aside, step, keys, editing, field, shown, misfiled>>

CodeEntered(c) ==
    /\ c \in codes
    /\ UNCHANGED <<row, aside, step, keys, editing, field>>
    /\ Files(c)
    /\ \/ /\ codes' = codes \ {c}
          /\ \/ Shows({"menu"})
             \/ UNCHANGED shown
          /\ asked' = "none" /\ StillMixed
       \/ /\ ~worker
          /\ UNCHANGED <<codes, shown, asked, mixed>>

attendance_command == AskCode("check_in")
attendance_code_entered == CodeEntered("check_in")
checkout_command == AskCode("check_out")
checkout_code_entered == CodeEntered("check_out")

-----------------------------------------------------------------------------
(* Which dialogue gets a message.                                          *)

RegTakesText == step \in Typed

Text(t) ==
    \/ reg_name(t) \/ reg_birth(t) \/ reg_phone(t) \/ reg_residence(t)
    \/ reg_bank(t) \/ reg_account(t)
    \/ ~RegTakesText /\ EditText(t)
    \/ ~RegTakesText /\ ~editing /\ attendance_code_entered
    \/ ~RegTakesText /\ ~editing /\ "check_in" \notin codes /\ checkout_code_entered

Photo == reg_face_photo \/ (step # "face_photo" /\ EditPhotoBegin)

Choice(b) ==
    /\ b \in shown
    /\ \/ b = "driver" /\ reg_driver_license
       \/ b = "security" /\ reg_security_cert
       \/ step # b /\ EditChoice

\* /cancel clears user_data for all dialogues and ends the first.
cancel ==
    /\ ~Idle
    /\ Clears
    /\ IF step # "none" THEN step' = "none" /\ UNCHANGED <<editing, codes>>
       ELSE IF editing THEN editing' = FALSE /\ UNCHANGED <<step, codes>>
       ELSE /\ codes' = IF "check_in" \in codes THEN codes \ {"check_in"} ELSE {}
            /\ UNCHANGED <<step, editing>>
    /\ Shows({"menu"})
    /\ asked' = "none" /\ StillMixed
    /\ UNCHANGED <<row, aside, misfiled>>

\* A correction that awaited its file is not taken up again.
Restart ==
    /\ step' = "none" /\ editing' = FALSE /\ codes' = {}
    /\ Clears
    /\ mixed' = FALSE
    /\ fetch' = "no"
    /\ cut' = (cut \/ fetch \notin {"no", "gone"})
    /\ UNCHANGED <<row, upload, leaving, faults, shown, asked, misfiled>>

-----------------------------------------------------------------------------
(* The web.  A request is interrupted by others only where it awaits, by   *)
(* the bot anywhere.                                                       *)

create_worker ==
    /\ ~worker
    /\ worker' = TRUE /\ missing' = {}
    /\ UNCHANGED <<photo, disk, aside, dialogue, shown, history>>

\* delete_my_account: the file goes first; a foreign key may then refuse to
\* delete the row.
WithdrawBegin ==
    /\ worker /\ ~leaving
    /\ leaving' = TRUE
    /\ Removes
    /\ UNCHANGED <<worker, missing, photo, upload, cut, faults, dialogue, shown,
                   history>>

WithdrawEnd ==
    /\ leaving
    /\ leaving' = FALSE
    /\ \/ /\ worker' = FALSE /\ missing' = {}
          /\ photo' = "none" /\ disk' = {}
          /\ upload' = IF upload = "row" THEN "gone" ELSE upload
          /\ fetch' = IF fetch = "no" THEN "no" ELSE "gone"
          /\ cut' = FALSE
          /\ UNCHANGED faults
       \/ /\ Fault
          /\ cut' = TRUE
          /\ UNCHANGED <<row, upload, fetch>>
    /\ UNCHANGED <<dialogue, shown, history>>

\* upload_my_photo: the old file is removed before the body is awaited.
UploadBegin ==
    /\ worker /\ ~leaving /\ upload = "no"
    /\ upload' = "row"
    /\ Removes
    /\ UNCHANGED <<worker, missing, photo, leaving, cut, faults, dialogue, shown,
                   history>>

\* The row's id was read before; a row of a new account is not touched.
UploadEnd ==
    /\ upload # "no" /\ ~leaving
    /\ upload' = "no"
    /\ \/ /\ upload = "row"
          /\ photo' = "web" /\ disk' = disk \cup {"web"}
          /\ missing' = missing \ {"face_photo"}
          /\ cut' = FALSE
          /\ UNCHANGED <<worker, faults>>
       \/ upload = "gone" /\ UNCHANGED <<row, cut, faults>>
       \/ Fault /\ cut' = (cut \/ upload = "row") /\ UNCHANGED row
    /\ UNCHANGED <<leaving, fetch, dialogue, shown, history>>

Init ==
    /\ worker = FALSE /\ missing = {}
    /\ photo = "none" /\ disk = {}
    /\ upload = "no" /\ leaving = FALSE /\ fetch = "no" /\ cut = FALSE
    /\ faults = 0
    /\ step = "none" /\ keys = {}
    /\ editing = FALSE /\ field = "none"
    /\ codes = {}
    /\ shown = {}
    /\ asked = "none" /\ mixed = FALSE /\ misfiled = FALSE

\* The application is built without concurrent_updates.
Update ==
    \/ start \/ reg_contract
    \/ my_info \/ edit_info \/ main_menu
    \/ \E f \in Fields : edit_field_selected(f)
    \/ attendance_command \/ checkout_command
    \/ \E t \in Texts : Text(t)
    \/ Photo
    \/ \E b \in ByButton : Choice(b)
    \/ cancel

Next ==
    \/ fetch = "no" /\ Update
    \/ PhotoSaved \/ PhotoStored \/ PhotoFails
    \/ Restart
    \/ create_worker \/ WithdrawBegin \/ WithdrawEnd \/ UploadBegin \/ UploadEnd

Spec == Init /\ [][Next]_vars

-----------------------------------------------------------------------------
TypeOK ==
    /\ worker \in BOOLEAN
    /\ missing \in SUBSET Fields
    /\ photo \in {"none", "bot", "web"}
    /\ disk \in SUBSET {"bot", "web"}
    /\ upload \in {"no", "row", "gone"}
    /\ leaving \in BOOLEAN
    /\ fetch \in {"no", "row", "saved", "taken", "gone"}
    /\ cut \in BOOLEAN
    /\ faults \in 0 .. MaxFaults
    /\ step \in {"none"} \cup ToSet(Steps)
    /\ keys \in SUBSET Fields
    /\ editing \in BOOLEAN
    /\ field \in {"none"} \cup Fields
    /\ codes \in SUBSET Codes
    /\ shown \in SUBSET ({"menu", "info", "edits", "contract"} \cup ByButton)
    /\ asked \in {"none"} \cup ToSet(Steps) \cup Codes
    /\ mixed \in BOOLEAN
    /\ misfiled \in BOOLEAN

\* A row that the bot's registration made has every answer but, when storing
\* the file failed, the photo: whatever cleared user_data between the nine
\* questions, the last step inserts a complete row or none (worker_bot.py:441).
BotRowComplete == missing \subseteq {"face_photo"}

\* What the bot relies on: the types, and that its rows are complete.
ChatInv == TypeOK /\ BotRowComplete

\* While one dialogue at a time is open, a typed answer or a photo is stored as
\* the answer to the question the bot asked last, whatever refused answers,
\* failures, old buttons, cancellations and restarts there were before.
AloneIsRight == ~misfiled

\* A photo that a row names exists, unless it is being replaced or the last
\* replacement was cut off: bot and web remove each other's files before they
\* await and write their own (worker_bot.py:701, workers.py:251), a withdrawal
\* that is refused has removed the file (workers.py:356).  A restart, a failure
\* or the other's removal of the new file cuts a replacement off; the next one
\* that ends makes up for it.
BeingReplaced == leaving \/ upload # "no" \/ fetch # "no"
PhotoOnDisk == photo \in disk \cup {"none"} \/ cut \/ BeingReplaced

-----------------------------------------------------------------------------
(* What documents and comments say and the code does not do.               *)

\* "출석 코드 6자리를 입력하세요" (enter the six digits of the attendance code),
\* worker_bot.py:1134: what is typed then becomes no answer of the registration.
CodeIsTakenAsCode ==
    [][(asked \in Codes) => (keys' \ keys) \subseteq ByButton]_vars
=============================================================================
