-------------------------- MODULE WorkerChatProofs --------------------------
(***************************************************************************)
(* For any number of failures: an answer is stored as the answer to the    *)
(* question asked last while one dialogue is open, the rows that the bot   *)
(* inserts are complete, and the photo that a row names exists unless it   *)
(* is being replaced or the last replacement was cut off.                  *)
(***************************************************************************)
EXTENDS WorkerChat, TLAPS

-----------------------------------------------------------------------------
(* The nine questions and their order.                                     *)

LEMMA StepsListed ==
    /\ ToSet(Steps) = {"name", "birth", "phone", "residence", "face_photo", "driver",
                       "security", "bank", "account", "contract"}
    /\ Fields = {"name", "birth", "phone", "residence", "face_photo", "driver",
                 "security", "bank", "account"}
    /\ Typed = {"name", "birth", "phone", "residence", "bank", "account"}
<1>1. ToSet(Steps) = {"name", "birth", "phone", "residence", "face_photo", "driver",
                       "security", "bank", "account", "contract"}
  <2>1. DOMAIN Steps = 1 .. 10
    BY DEF Steps
  <2>2. 1 .. 10 = {1, 2, 3, 4, 5, 6, 7, 8, 9, 10}
    OBVIOUS
  <2> QED BY <2>1, <2>2 DEF ToSet, Steps
<1> QED BY <1>1 DEF Fields, Typed, ByButton

LEMMA Places ==
    /\ Place("name") = 1 /\ Place("birth") = 2 /\ Place("phone") = 3
    /\ Place("residence") = 4 /\ Place("face_photo") = 5 /\ Place("driver") = 6
    /\ Place("security") = 7 /\ Place("bank") = 8 /\ Place("account") = 9
    /\ Place("contract") = 10
<1>1. DOMAIN Steps = {1, 2, 3, 4, 5, 6, 7, 8, 9, 10}
  BY DEF Steps
<1>2. \A i, j \in DOMAIN Steps : Steps[i] = Steps[j] => i = j
  BY <1>1 DEF Steps
<1>3. \A i \in DOMAIN Steps : Place(Steps[i]) = i
  BY <1>2 DEF Place
<1> QED BY <1>1, <1>3 DEF Steps

LEMMA NextSteps ==
    /\ AfterStep("name") = "birth" /\ AfterStep("birth") = "phone"
    /\ AfterStep("phone") = "residence" /\ AfterStep("residence") = "face_photo"
    /\ AfterStep("face_photo") = "driver" /\ AfterStep("driver") = "security"
    /\ AfterStep("security") = "bank" /\ AfterStep("bank") = "account"
    /\ AfterStep("account") = "contract"
BY Places DEF AfterStep, Steps

-----------------------------------------------------------------------------
(* Types, by what the handlers write together.                             *)

RowTyped ==
    /\ worker \in BOOLEAN
    /\ missing \in SUBSET Fields
    /\ photo \in {"none", "bot", "web"}
    /\ disk \in SUBSET {"bot", "web"}
AsideTyped ==
    /\ upload \in {"no", "row", "gone"}
    /\ leaving \in BOOLEAN
    /\ fetch \in {"no", "row", "saved", "taken", "gone"}
    /\ cut \in BOOLEAN
    /\ faults \in 0 .. MaxFaults
DialogueTyped ==
    /\ step \in {"none"} \cup ToSet(Steps)
    /\ keys \in SUBSET Fields
    /\ editing \in BOOLEAN
    /\ field \in {"none"} \cup Fields
    /\ codes \in SUBSET Codes
Buttons == {"menu", "info", "edits", "contract"} \cup ByButton
AskedTyped ==
    /\ asked \in {"none"} \cup ToSet(Steps) \cup Codes
    /\ mixed \in BOOLEAN
    /\ misfiled \in BOOLEAN

LEMMA TypedParts ==
    /\ TypeOK <=> RowTyped /\ AsideTyped /\ DialogueTyped /\ shown \subseteq Buttons /\ AskedTyped
    /\ TypeOK' <=> RowTyped' /\ AsideTyped' /\ DialogueTyped' /\ shown' \subseteq Buttons /\ AskedTyped'
BY DEF TypeOK, RowTyped, AsideTyped, DialogueTyped, Buttons, AskedTyped

LEMMA PartsKept ==
    /\ RowTyped /\ UNCHANGED row => RowTyped'
    /\ AsideTyped /\ UNCHANGED aside => AsideTyped'
    /\ DialogueTyped /\ UNCHANGED dialogue => DialogueTyped'
    /\ AskedTyped /\ UNCHANGED history => AskedTyped'
BY DEF RowTyped, row, AsideTyped, aside, replacing, DialogueTyped, dialogue, AskedTyped, history

LEMMA FaultTyped == AsideTyped /\ Fault /\ UNCHANGED replacing => AsideTyped'
BY ChatAssumption DEF AsideTyped, Fault, replacing

LEMMA FilesTyped ==
    ASSUME NEW f, AskedTyped, Files(f)
    PROVE  misfiled' \in BOOLEAN
BY DEF AskedTyped, Files

LEMMA AsksTyped ==
    ASSUME NEW f \in {"none"} \cup ToSet(Steps) \cup Codes, AskedTyped, Asks(f)
    PROVE  AskedTyped'
BY DEF AskedTyped, Asks

LEMMA AnsweredTyped ==
    ASSUME NEW f \in Fields, NEW B \in SUBSET Buttons, TypeOK, Answered(f, B),
           misfiled' \in BOOLEAN
    PROVE  TypeOK'
<1>1. AfterStep(f) \in ToSet(Steps)
  BY NextSteps, StepsListed
<1>2. DialogueTyped' /\ AskedTyped' /\ shown' \subseteq Buttons
  BY <1>1, TypedParts DEF Answered, DialogueTyped, AskedTyped, Shows
<1> QED BY <1>2, TypedParts, PartsKept DEF Answered

LEMMA RegTextTyped ==
    ASSUME NEW f \in Typed, NEW t, NEW B \in SUBSET Buttons, TypeOK, RegText(f, t, B)
    PROVE  TypeOK'
<1>1. f \in Fields
  BY DEF Typed
<1>2. CASE Answered(f, B) /\ Files(f)
  BY <1>1, <1>2, AnsweredTyped, FilesTyped, TypedParts
<1>3. CASE AsksAgain(f) /\ UNCHANGED aside
  BY <1>1, <1>3, AsksTyped, PartsKept, TypedParts DEF AsksAgain, Fields
<1> QED BY <1>2, <1>3 DEF RegText

LEMMA RegTyped ==
    ASSUME TypeOK, NEW t,
           \/ reg_name(t) \/ reg_birth(t) \/ reg_phone(t) \/ reg_residence(t)
           \/ reg_bank(t) \/ reg_account(t)
    PROVE  TypeOK'
<1>1. {} \subseteq Buttons /\ {"contract"} \subseteq Buttons
  BY DEF Buttons
<1>2. /\ "name" \in Typed /\ "birth" \in Typed /\ "phone" \in Typed
      /\ "residence" \in Typed /\ "bank" \in Typed /\ "account" \in Typed
  BY StepsListed
<1>3. \E f \in Typed : \E B \in SUBSET Buttons : RegText(f, t, B)
  BY <1>1, <1>2 DEF reg_name, reg_birth, reg_phone, reg_residence, reg_bank, reg_account
<1> QED BY <1>3, RegTextTyped

LEMMA PhotoAnswerTyped == TypeOK /\ reg_face_photo => TypeOK'
<1> SUFFICES ASSUME TypeOK, reg_face_photo PROVE TypeOK'
  OBVIOUS
<1>1. "face_photo" \in Fields /\ "face_photo" \in ToSet(Steps) /\ {"driver"} \subseteq Buttons
  BY StepsListed DEF Buttons, ByButton
<1>2. CASE Answered("face_photo", {"driver"}) /\ Files("face_photo")
  BY <1>1, <1>2, AnsweredTyped, FilesTyped, TypedParts
<1>3. CASE AsksAgain("face_photo") /\ Fault /\ UNCHANGED replacing
  BY <1>1, <1>3, AsksTyped, FaultTyped, PartsKept, TypedParts DEF AsksAgain
<1> QED BY <1>2, <1>3 DEF reg_face_photo

LEMMA ButtonAnswersTyped ==
    TypeOK /\ (reg_driver_license \/ reg_security_cert) => TypeOK'
<1>1. /\ "driver" \in Fields /\ "security" \in Fields
      /\ {"security"} \subseteq Buttons /\ {} \subseteq Buttons
  BY StepsListed DEF Buttons, ByButton
<1>2. TypeOK /\ UNCHANGED misfiled => misfiled' \in BOOLEAN
  BY DEF TypeOK
<1> QED BY <1>1, <1>2, AnsweredTyped, Zenon DEF reg_driver_license, reg_security_cert

LEMMA ContractTyped == TypeOK /\ reg_contract => TypeOK'
<1> SUFFICES ASSUME TypeOK, reg_contract PROVE TypeOK'
  OBVIOUS
<1> USE DEF reg_contract, RegContract
<1>1. DialogueTyped'
  BY TypedParts DEF DialogueTyped, Clears
<1>2. AskedTyped'
  BY TypedParts DEF AskedTyped, StillMixed
<1>3. shown' \subseteq Buttons
  BY TypedParts DEF Shows, Buttons
<1>4. CASE Insert(keys)
  <2>1. keys \subseteq Fields /\ "face_photo" \in Fields
    BY StepsListed, TypedParts DEF DialogueTyped
  <2>2. RowTyped'
    BY <1>4, <2>1, TypedParts DEF Insert, RowTyped
  <2>3. AsideTyped'
    <3>1. UNCHANGED replacing /\ (Fault \/ UNCHANGED faults)
      BY <1>4 DEF Insert, aside
    <3> QED BY <3>1, FaultTyped, PartsKept, TypedParts DEF aside
  <2> QED BY <1>1, <1>2, <1>3, <2>2, <2>3, TypedParts
<1>5. CASE UNCHANGED <<row, aside, shown>>
  BY <1>1, <1>2, <1>3, <1>5, TypedParts, PartsKept
<1> QED BY <1>4, <1>5

LEMMA StartTyped == TypeOK /\ start => TypeOK'
<1> SUFFICES ASSUME TypeOK, start PROVE TypeOK'
  OBVIOUS
<1>1. "name" \in ToSet(Steps)
  BY StepsListed
<1>2. DialogueTyped' /\ AskedTyped' /\ shown' \subseteq Buttons
  BY <1>1, TypedParts DEF start, DialogueTyped, AskedTyped, Shows, Opens, Buttons
<1> QED BY <1>2, TypedParts, PartsKept DEF start

LEMMA MenusTyped == TypeOK /\ (my_info \/ edit_info \/ main_menu) => TypeOK'
<1> SUFFICES ASSUME TypeOK, my_info \/ edit_info \/ main_menu PROVE TypeOK'
  OBVIOUS
<1>1. shown' \subseteq Buttons
  BY TypedParts DEF my_info, edit_info, main_menu, Shows, Buttons
<1> QED BY <1>1, TypedParts, PartsKept DEF my_info, edit_info, main_menu

LEMMA EditDoneTyped ==
    ASSUME TypeOK, EditDone, misfiled' \in BOOLEAN, RowTyped', AsideTyped'
    PROVE  TypeOK'
<1>1. DialogueTyped' /\ AskedTyped' /\ shown' \subseteq Buttons
  BY TypedParts DEF EditDone, Clears, DialogueTyped, AskedTyped, StillMixed, Shows, Buttons
<1> QED BY <1>1, TypedParts

LEMMA SelectTyped ==
    ASSUME TypeOK, NEW f \in Fields, edit_field_selected(f)
    PROVE  TypeOK'
<1>1. DialogueTyped' /\ AskedTyped' /\ shown' \subseteq Buttons
  BY TypedParts DEF edit_field_selected, DialogueTyped, AskedTyped, Shows, Opens, Buttons, Fields
<1> QED BY <1>1, TypedParts, PartsKept DEF edit_field_selected

LEMMA EditTextTyped ==
    ASSUME TypeOK, NEW t, EditText(t)
    PROVE  TypeOK'
<1>1. AsideTyped'
  BY TypedParts, PartsKept DEF EditText
<1>2. CASE EditDone
  <2>1. CASE /\ missing' = missing \ {field} /\ UNCHANGED <<worker, photo, disk>>
             /\ Files(field)
    <3>1. RowTyped'
      BY <2>1, TypedParts DEF RowTyped
    <3> QED BY <1>1, <1>2, <2>1, <3>1, EditDoneTyped, FilesTyped, TypedParts
  <2>2. CASE AsksAgain(field)
    BY <1>1, <2>2, AsksTyped, PartsKept, TypedParts DEF AsksAgain, DialogueTyped, Fields
  <2>3. CASE UNCHANGED <<row, dialogue, shown, history>>
    BY <1>1, <2>3, PartsKept, TypedParts
  <2> QED BY <2>1, <2>2, <2>3 DEF EditText
<1>3. CASE AsksAgain(field)
  BY <1>1, <1>3, AsksTyped, PartsKept, TypedParts DEF AsksAgain, DialogueTyped, Fields
<1>4. CASE UNCHANGED <<row, dialogue, shown, history>>
  BY <1>1, <1>4, PartsKept, TypedParts
<1> QED BY <1>2, <1>3, <1>4 DEF EditText

LEMMA EditChoiceTyped == TypeOK /\ EditChoice => TypeOK'
<1> SUFFICES ASSUME TypeOK, EditChoice PROVE TypeOK'
  OBVIOUS
<1>1. RowTyped' /\ misfiled' \in BOOLEAN
  BY TypedParts DEF EditChoice, RowTyped, AskedTyped
<1> QED BY <1>1, EditDoneTyped, TypedParts, PartsKept DEF EditChoice

LEMMA EditPhotoTyped ==
    TypeOK /\ (EditPhotoBegin \/ PhotoSaved \/ PhotoStored \/ PhotoFails) => TypeOK'
<1> SUFFICES ASSUME TypeOK, EditPhotoBegin \/ PhotoSaved \/ PhotoStored \/ PhotoFails
             PROVE  TypeOK'
  OBVIOUS
<1>1. CASE AsksAgain(field) /\ UNCHANGED aside
  BY <1>1, AsksTyped, PartsKept, TypedParts DEF AsksAgain, DialogueTyped, Fields
<1>2. CASE EditPhotoBegin /\ fetch' = "row" /\ disk' = disk \ {photo}
           /\ UNCHANGED <<worker, missing, photo, upload, leaving, cut, faults,
                          dialogue, shown, history>>
  <2>1. RowTyped' /\ AsideTyped'
    BY <1>2, TypedParts DEF RowTyped, AsideTyped
  <2> QED BY <1>2, <2>1, PartsKept, TypedParts
<1>3. CASE PhotoSaved
  <2>1. RowTyped' /\ AsideTyped'
    BY <1>3, TypedParts DEF PhotoSaved, Saves, RowTyped, AsideTyped
  <2> QED BY <1>3, <2>1, PartsKept, TypedParts DEF PhotoSaved
<1>4. CASE PhotoStored
  <2>1. RowTyped' /\ AsideTyped'
    BY <1>4, TypedParts DEF PhotoStored, RowTyped, AsideTyped
  <2>2. misfiled' \in BOOLEAN
    BY <1>4, FilesTyped, TypedParts DEF PhotoStored, AskedTyped
  <2> QED BY <1>4, <2>1, <2>2, EditDoneTyped DEF PhotoStored
<1>5. CASE PhotoFails
  <2>1. AsideTyped'
    BY <1>5, ChatAssumption, TypedParts DEF PhotoFails, Fault, AsideTyped
  <2> QED BY <1>5, <2>1, AsksTyped, PartsKept, TypedParts
           DEF PhotoFails, AsksAgain, DialogueTyped, Fields
<1> QED BY <1>1, <1>2, <1>3, <1>4, <1>5 DEF EditPhotoBegin

LEMMA CodesTyped ==
    ASSUME TypeOK, NEW c \in Codes, AskCode(c) \/ CodeEntered(c)
    PROVE  TypeOK'
<1>1. CASE AskCode(c)
  <2>1. DialogueTyped' /\ AskedTyped'
    BY <1>1, TypedParts DEF AskCode, DialogueTyped, AskedTyped, Opens
  <2> QED BY <1>1, <2>1, TypedParts, PartsKept DEF AskCode
<1>2. CASE CodeEntered(c)
  <2>1. misfiled' \in BOOLEAN
    BY <1>2, FilesTyped, TypedParts DEF CodeEntered
  <2>2. DialogueTyped' /\ AskedTyped' /\ shown' \subseteq Buttons
    BY <1>2, <2>1, TypedParts
       DEF CodeEntered, DialogueTyped, AskedTyped, StillMixed, Shows, Buttons
  <2> QED BY <1>2, <2>2, TypedParts, PartsKept DEF CodeEntered
<1> QED BY <1>1, <1>2

LEMMA CancelTyped == TypeOK /\ (cancel \/ Restart) => TypeOK'
<1> SUFFICES ASSUME TypeOK, cancel \/ Restart PROVE TypeOK'
  OBVIOUS
<1>1. CASE cancel
  <2>1. DialogueTyped'
    BY <1>1, TypedParts DEF cancel, DialogueTyped, Clears
  <2>2. AskedTyped' /\ shown' \subseteq Buttons
    BY <1>1, TypedParts DEF cancel, AskedTyped, StillMixed, Shows, Buttons
  <2> QED BY <1>1, <2>1, <2>2, TypedParts, PartsKept DEF cancel
<1>2. CASE Restart
  <2>1. DialogueTyped' /\ AskedTyped' /\ AsideTyped'
    BY <1>2, TypedParts DEF Restart, DialogueTyped, AskedTyped, AsideTyped, Clears
  <2> QED BY <1>2, <2>1, TypedParts, PartsKept DEF Restart
<1> QED BY <1>1, <1>2

WebStep == create_worker \/ WithdrawBegin \/ WithdrawEnd \/ UploadBegin \/ UploadEnd

LEMMA WebStepsTyped == TypeOK /\ WebStep => TypeOK'
<1> SUFFICES ASSUME TypeOK, WebStep PROVE TypeOK'
  OBVIOUS
<1> USE TypedParts DEF RowTyped, AsideTyped
<1>1. CASE create_worker
  <2>1. RowTyped' /\ AsideTyped'
    BY <1>1 DEF create_worker, aside, replacing
  <2> QED BY <1>1, <2>1, PartsKept DEF create_worker
<1>2. CASE WithdrawBegin \/ UploadBegin
  <2>1. RowTyped' /\ AsideTyped'
    BY <1>2 DEF WithdrawBegin, UploadBegin, Removes
  <2> QED BY <1>2, <2>1, PartsKept DEF WithdrawBegin, UploadBegin
<1>3. CASE WithdrawEnd
  <2>1. RowTyped' /\ leaving' \in BOOLEAN /\ cut' \in BOOLEAN
    BY <1>3 DEF WithdrawEnd, row
  <2>2. upload' \in {"no", "row", "gone"} /\ faults' \in 0 .. MaxFaults
    BY <1>3, ChatAssumption DEF WithdrawEnd, Fault
  <2>3. fetch' \in {"no", "row", "saved", "taken", "gone"}
    BY <1>3 DEF WithdrawEnd
  <2> QED BY <1>3, <2>1, <2>2, <2>3, PartsKept DEF WithdrawEnd
<1>4. CASE UploadEnd
  <2>1. RowTyped' /\ cut' \in BOOLEAN
    BY <1>4 DEF UploadEnd, row
  <2>2. upload' \in {"no", "row", "gone"} /\ faults' \in 0 .. MaxFaults
    BY <1>4, ChatAssumption DEF UploadEnd, Fault
  <2> QED BY <1>4, <2>1, <2>2, PartsKept DEF UploadEnd
<1> QED BY <1>1, <1>2, <1>3, <1>4 DEF WebStep

LEMMA TypeStep == TypeOK /\ [Next]_vars => TypeOK'
<1> SUFFICES ASSUME TypeOK, [Next]_vars PROVE TypeOK'
  OBVIOUS
<1>1. CASE \E t \in Texts : Text(t)
  <2>1. PICK t \in Texts : Text(t)
    BY <1>1
  <2>2. "check_in" \in Codes /\ "check_out" \in Codes
    BY DEF Codes
  <2> QED BY <2>1, <2>2, RegTyped, EditTextTyped, CodesTyped, Zenon
       DEF Text, attendance_code_entered, checkout_code_entered
<1>2. CASE Photo
  BY <1>2, PhotoAnswerTyped, EditPhotoTyped DEF Photo
<1>3. CASE \E b \in ByButton : Choice(b)
  BY <1>3, ButtonAnswersTyped, EditChoiceTyped DEF Choice
<1>4. CASE attendance_command \/ checkout_command
  BY <1>4, CodesTyped DEF attendance_command, checkout_command, Codes
<1>5. CASE \E f \in Fields : edit_field_selected(f)
  BY <1>5, SelectTyped
<1>6. CASE UNCHANGED vars
  BY <1>6 DEF vars, TypeOK
<1> QED BY <1>1, <1>2, <1>3, <1>4, <1>5, <1>6, StartTyped, ContractTyped, MenusTyped,
        CancelTyped, WebStepsTyped, EditPhotoTyped DEF Next, Update, WebStep

LEMMA TypesHold == Spec => []TypeOK
<1>1. Init => TypeOK
  <2> SUFFICES ASSUME Init PROVE TypeOK
    OBVIOUS
  <2>1. RowTyped
    BY DEF Init, RowTyped
  <2>3. AsideTyped
    <3>1. leaving \in BOOLEAN /\ cut \in BOOLEAN
      BY Zenon DEF Init
    <3> QED BY <3>1, ChatAssumption DEF Init, AsideTyped
  <2>2. DialogueTyped /\ shown \subseteq Buttons /\ AskedTyped
    BY DEF Init, DialogueTyped, AskedTyped
  <2> QED BY <2>1, <2>2, <2>3, TypedParts
<1> QED BY <1>1, TypeStep, PTL DEF Spec

-----------------------------------------------------------------------------
(* One dialogue at a time.  A dialogue that has the chat to itself is the  *)
(* one whose question the bot asked last.                                  *)

OneDialogue == ~mixed =>
    /\ step # "none" => ~editing /\ codes = {} /\ asked = step
    /\ editing => step = "none" /\ codes = {} /\ asked = field
    /\ codes # {} => step = "none" /\ ~editing /\ codes = {asked}

AloneInv == OneDialogue /\ AloneIsRight

\* While a corrected photo is awaited, the dialogue that asked for it waits.
Fetching == fetch # "no" => editing /\ field = "face_photo"

LEMMA UpdateFetching ==
    ASSUME Update, fetch = "no"
    PROVE  Fetching'
<1>1. CASE \E t \in Texts : Text(t)
  <2>1. PICK t \in Texts : Text(t)
    BY <1>1
  <2>2. UNCHANGED fetch
    BY <2>1 DEF Text, reg_name, reg_birth, reg_phone, reg_residence, reg_bank, reg_account,
       RegText, Answered, AsksAgain, EditText, attendance_code_entered,
       checkout_code_entered, CodeEntered, aside, replacing
  <2> QED BY <2>2 DEF Fetching
<1>2. CASE Photo
  <2>1. CASE reg_face_photo
    BY <2>1 DEF reg_face_photo, Answered, aside, replacing, Fetching
  <2>2. CASE EditPhotoBegin
    BY <2>2 DEF EditPhotoBegin, AsksAgain, aside, replacing, dialogue, Fetching
  <2> QED BY <1>2, <2>1, <2>2 DEF Photo
<1>3. CASE \E b \in ByButton : Choice(b)
  BY <1>3 DEF Choice, reg_driver_license, reg_security_cert, Answered, EditChoice,
     aside, replacing, Fetching
<1>4. CASE \/ start \/ my_info \/ edit_info \/ main_menu \/ cancel
           \/ attendance_command \/ checkout_command
           \/ \E f \in Fields : edit_field_selected(f)
  BY <1>4 DEF start, my_info, edit_info, main_menu, cancel, attendance_command,
     checkout_command, AskCode, edit_field_selected, aside, replacing, Fetching
<1>5. CASE reg_contract
  BY <1>5 DEF reg_contract, RegContract, Insert, aside, replacing, Fetching
<1> QED BY <1>1, <1>2, <1>3, <1>4, <1>5 DEF Update

LEMMA FetchingStep == Fetching /\ [Next]_vars => Fetching'
<1> SUFFICES ASSUME Fetching, [Next]_vars PROVE Fetching'
  OBVIOUS
<1>1. CASE PhotoSaved \/ PhotoStored \/ PhotoFails \/ Restart
  BY <1>1 DEF PhotoSaved, PhotoStored, PhotoFails, Restart, dialogue, Fetching
<1>2. CASE WebStep \/ UNCHANGED vars
  BY <1>2 DEF WebStep, create_worker, WithdrawBegin, WithdrawEnd, UploadBegin, UploadEnd,
     Removes, aside, replacing, dialogue, vars, Fetching
<1> QED BY <1>1, <1>2, UpdateFetching DEF Next, WebStep

LEMMA FilesAlone ==
    ASSUME NEW f, AloneIsRight, Files(f), ~mixed => asked = f
    PROVE  AloneIsRight'
BY DEF AloneIsRight, Files

LEMMA StillAlone ==
    ASSUME AloneInv, UNCHANGED <<step, editing, codes, asked, field, mixed>>
    PROVE  OneDialogue'
BY DEF AloneInv, OneDialogue

LEMMA AsksAgainAlone ==
    ASSUME NEW f, AloneInv, step = f \/ (editing /\ field = f), Asks(f), f # "none",
           UNCHANGED <<step, editing, codes, field>>
    PROVE  AloneInv'
BY DEF AloneInv, OneDialogue, AloneIsRight, Asks

LEMMA AnsweredAlone ==
    ASSUME TypeOK, AloneInv, NEW f \in Fields, NEW B, step = f, Answered(f, B)
    PROVE  OneDialogue'
<1>1. step # "none" /\ step' = asked'
  BY StepsListed DEF Answered
<1>2. UNCHANGED <<editing, codes, mixed>>
  BY DEF Answered
<1> QED BY <1>1, <1>2 DEF AloneInv, OneDialogue, TypeOK

LEMMA RegTextAlone ==
    ASSUME TypeOK, AloneInv, NEW f \in Typed, NEW t, NEW B, RegText(f, t, B)
    PROVE  AloneInv'
<1>1. f \in Fields /\ f # "none"
  BY StepsListed
<1>2. step = f /\ (~mixed => asked = f)
  BY <1>1 DEF RegText, AloneInv, OneDialogue
<1>3. CASE Answered(f, B) /\ Files(f)
  BY <1>1, <1>2, <1>3, AnsweredAlone, FilesAlone DEF AloneInv
<1>4. CASE AsksAgain(f)
  BY <1>1, <1>2, <1>4, AsksAgainAlone DEF AsksAgain, dialogue
<1> QED BY <1>3, <1>4 DEF RegText

LEMMA RegAlone ==
    ASSUME TypeOK, AloneInv, NEW t,
           \/ reg_name(t) \/ reg_birth(t) \/ reg_phone(t) \/ reg_residence(t)
           \/ reg_bank(t) \/ reg_account(t)
    PROVE  AloneInv'
<1>1. /\ "name" \in Typed /\ "birth" \in Typed /\ "phone" \in Typed
      /\ "residence" \in Typed /\ "bank" \in Typed /\ "account" \in Typed
  BY StepsListed
<1>2. \E f \in Typed : \E B : RegText(f, t, B)
  BY <1>1 DEF reg_name, reg_birth, reg_phone, reg_residence, reg_bank, reg_account
<1> QED BY <1>2, RegTextAlone

LEMMA RegOthersAlone ==
    ASSUME TypeOK, AloneInv, reg_face_photo \/ reg_driver_license \/ reg_security_cert
    PROVE  AloneInv'
<1>1. /\ "face_photo" \in Fields /\ "driver" \in Fields /\ "security" \in Fields
  BY StepsListed
<1>2. CASE reg_face_photo
  <2>1. step = "face_photo" /\ (~mixed => asked = "face_photo")
    BY <1>2 DEF reg_face_photo, AloneInv, OneDialogue
  <2>2. CASE Answered("face_photo", {"driver"}) /\ Files("face_photo")
    BY <1>1, <2>1, <2>2, AnsweredAlone, FilesAlone DEF AloneInv
  <2>3. CASE AsksAgain("face_photo")
    BY <2>1, <2>3, AsksAgainAlone DEF AsksAgain, dialogue
  <2> QED BY <1>2, <2>2, <2>3 DEF reg_face_photo
<1>3. CASE reg_driver_license
  <2>1. OneDialogue'
    BY <1>1, <1>3, AnsweredAlone DEF reg_driver_license
  <2> QED BY <1>3, <2>1 DEF reg_driver_license, AloneInv, AloneIsRight
<1>4. CASE reg_security_cert
  <2>1. OneDialogue'
    BY <1>1, <1>4, AnsweredAlone DEF reg_security_cert
  <2> QED BY <1>4, <2>1 DEF reg_security_cert, AloneInv, AloneIsRight
<1> QED BY <1>2, <1>3, <1>4

LEMMA StartAlone ==
    ASSUME TypeOK, AloneInv, start \/ reg_contract
    PROVE  AloneInv'
<1>1. CASE start
  BY <1>1 DEF TypeOK, AloneInv, OneDialogue, AloneIsRight, start, Opens, Idle
<1>2. CASE reg_contract
  BY <1>2 DEF TypeOK, AloneInv, OneDialogue, AloneIsRight, reg_contract, RegContract, Clears,
              StillMixed
<1> QED BY <1>1, <1>2

LEMMA EditDoneAlone ==
    ASSUME TypeOK, AloneInv, editing, EditDone
    PROVE  OneDialogue'
BY DEF TypeOK, AloneInv, OneDialogue, EditDone, Clears, StillMixed

LEMMA EditTextAlone ==
    ASSUME TypeOK, AloneInv, NEW t, EditText(t)
    PROVE  AloneInv'
<1>1. editing /\ (~mixed => asked = field)
  BY DEF EditText, AloneInv, OneDialogue
<1>2. CASE EditDone /\ Files(field)
  BY <1>1, <1>2, EditDoneAlone, FilesAlone DEF AloneInv
<1>3. CASE AsksAgain(field) /\ (field = "face_photo" \/ field \in Typed)
  <2>1. field # "none"
    BY <1>3, StepsListed
  <2> QED BY <1>1, <1>3, <2>1, AsksAgainAlone DEF AsksAgain, dialogue
<1>4. CASE UNCHANGED <<row, dialogue, shown, history>>
  BY <1>4, StillAlone DEF dialogue, history, AloneInv, AloneIsRight
<1> QED BY <1>2, <1>3, <1>4 DEF EditText

LEMMA EditsAlone ==
    ASSUME TypeOK, AloneInv, Fetching,
           EditChoice \/ EditPhotoBegin \/ PhotoSaved \/ PhotoStored \/ PhotoFails
    PROVE  AloneInv'
<1>1. CASE EditChoice
  BY <1>1, EditDoneAlone DEF EditChoice, AloneInv, AloneIsRight
<1>2. CASE PhotoStored
  <2>1. editing /\ (~mixed => asked = field)
    BY <1>2 DEF PhotoStored, Fetching, AloneInv, OneDialogue
  <2>2. AloneIsRight'
    BY <1>2, <2>1, FilesAlone DEF PhotoStored, AloneInv, AloneIsRight
  <2> QED BY <1>2, <2>1, <2>2, EditDoneAlone DEF PhotoStored, AloneInv
<1>3. CASE PhotoFails
  BY <1>3, AsksAgainAlone DEF PhotoFails, Fetching, AsksAgain, dialogue
<1>4. CASE EditPhotoBegin
  <2>1. CASE AsksAgain(field)
    BY <1>4, <2>1, AsksAgainAlone DEF EditPhotoBegin, AsksAgain, dialogue
  <2>2. CASE UNCHANGED <<dialogue, history>>
    BY <2>2, StillAlone DEF dialogue, history, AloneInv, AloneIsRight
  <2> QED BY <1>4, <2>1, <2>2 DEF EditPhotoBegin
<1>5. CASE PhotoSaved
  BY <1>5, StillAlone DEF PhotoSaved, dialogue, history, AloneInv, AloneIsRight
<1> QED BY <1>1, <1>2, <1>3, <1>4, <1>5

LEMMA SelectAlone ==
    ASSUME TypeOK, AloneInv, NEW f \in Fields, edit_field_selected(f)
    PROVE  AloneInv'
BY DEF TypeOK, AloneInv, OneDialogue, AloneIsRight, edit_field_selected, Opens, Idle

LEMMA CodesAlone ==
    ASSUME TypeOK, AloneInv, NEW c \in Codes, AskCode(c) \/ CodeEntered(c)
    PROVE  AloneInv'
<1>1. CASE AskCode(c)
  BY <1>1 DEF TypeOK, AloneInv, OneDialogue, AloneIsRight, AskCode, Opens, Idle
<1>2. CASE CodeEntered(c)
  <2>1. c \in codes /\ (~mixed => asked = c)
    BY <1>2 DEF CodeEntered, AloneInv, OneDialogue
  <2>2. AloneIsRight'
    BY <1>2, <2>1, FilesAlone DEF CodeEntered, AloneInv
  <2>3. CASE codes' = codes \ {c} /\ asked' = "none" /\ StillMixed
    BY <1>2, <2>1, <2>2, <2>3 DEF TypeOK, AloneInv, OneDialogue, CodeEntered, StillMixed
  <2>4. CASE UNCHANGED <<codes, shown, asked, mixed>>
    BY <1>2, <2>2, <2>4, StillAlone DEF CodeEntered, AloneInv
  <2> QED BY <1>2, <2>3, <2>4 DEF CodeEntered
<1> QED BY <1>1, <1>2

LEMMA CancelAlone ==
    ASSUME TypeOK, AloneInv, cancel \/ Restart
    PROVE  AloneInv'
<1>1. CASE cancel
  BY <1>1 DEF TypeOK, AloneInv, OneDialogue, AloneIsRight, cancel, Clears, StillMixed, Idle
<1>2. CASE Restart
  BY <1>2 DEF TypeOK, AloneInv, OneDialogue, AloneIsRight, Restart, Clears
<1> QED BY <1>1, <1>2

LEMMA OthersAlone ==
    ASSUME AloneInv,
           \/ my_info \/ edit_info \/ main_menu
           \/ WebStep
           \/ UNCHANGED vars
    PROVE  AloneInv'
BY StillAlone DEF my_info, edit_info, main_menu, WebStep, create_worker, WithdrawBegin,
    WithdrawEnd, UploadBegin, UploadEnd, vars, dialogue, history, AloneInv, AloneIsRight

LEMMA AloneStep == TypeOK /\ Fetching /\ AloneInv /\ [Next]_vars => AloneInv'
<1> SUFFICES ASSUME TypeOK, Fetching, AloneInv, [Next]_vars PROVE AloneInv'
  OBVIOUS
<1>1. CASE \E t \in Texts : Text(t)
  <2>1. PICK t \in Texts : Text(t)
    BY <1>1
  <2>2. "check_in" \in Codes /\ "check_out" \in Codes
    BY DEF Codes
  <2> QED BY <2>1, <2>2, RegAlone, EditTextAlone, CodesAlone, Zenon
       DEF Text, attendance_code_entered, checkout_code_entered
<1>2. CASE Photo
  BY <1>2, RegOthersAlone, EditsAlone DEF Photo
<1>3. CASE \E b \in ByButton : Choice(b)
  BY <1>3, RegOthersAlone, EditsAlone DEF Choice
<1>4. CASE attendance_command \/ checkout_command
  BY <1>4, CodesAlone DEF attendance_command, checkout_command, Codes
<1>5. CASE \E f \in Fields : edit_field_selected(f)
  BY <1>5, SelectAlone
<1> QED BY <1>1, <1>2, <1>3, <1>4, <1>5, StartAlone, CancelAlone, OthersAlone,
        EditsAlone DEF Next, Update, WebStep

\* While one dialogue is open, a typed answer or a photo is stored as the answer
\* to the question asked last: the first ConversationHandler whose state takes
\* a message (worker_bot.py, main) is then the one that asked.
THEOREM AnswersGoWhereAsked == Spec => []AloneIsRight
<1>1. Init => AloneInv /\ Fetching
  BY DEF Init, AloneInv, OneDialogue, AloneIsRight, Fetching
<1>2. AloneInv => AloneIsRight
  BY DEF AloneInv
<1> QED BY <1>1, <1>2, AloneStep, FetchingStep, TypesHold, PTL DEF Spec

-----------------------------------------------------------------------------
(* Complete rows.  Whatever cleared user_data on the way, an answer to the *)
(* first question is there only with those to all questions since.         *)

Before(f) == {Steps[i] : i \in 1 .. Place(f) - 1}

AnswersKept ==
    /\ step = "none" => keys = {}
    /\ step # "none" /\ "name" \in keys => Before(step) \subseteq keys

RowsInv == AnswersKept /\ BotRowComplete

LEMMA BeforeSteps ==
    /\ Before("name") = {}
    /\ Before("contract") = Fields
    /\ \A f \in Fields : Before(AfterStep(f)) = Before(f) \cup {f}
<1>1. \A i, j \in 1 .. 10 : Steps[i] = Steps[j] => i = j
  BY DEF Steps
<1>2. DOMAIN Steps = 1 .. 10
  BY DEF Steps
<1>3. \A i \in 1 .. 10 : Place(Steps[i]) = i
  BY <1>1, <1>2 DEF Place
<1>4. ASSUME NEW f \in Fields
      PROVE  Before(AfterStep(f)) = Before(f) \cup {f}
  <2>1. Place(f) \in 1 .. 9 /\ Steps[Place(f)] = f
    BY Places, StepsListed DEF Steps
  <2>2. Place(AfterStep(f)) = Place(f) + 1
    BY <1>3, <2>1 DEF AfterStep
  <2>3. 1 .. Place(AfterStep(f)) - 1 = (1 .. Place(f) - 1) \cup {Place(f)}
    BY <2>1, <2>2
  <2> QED BY <2>1, <2>3 DEF Before
<1>5. Before("name") = {}
  BY Places DEF Before
<1>6. Before("contract") = Fields
  <2>1. 1 .. Place("contract") - 1 = {1, 2, 3, 4, 5, 6, 7, 8, 9}
    BY Places
  <2> QED BY <2>1, StepsListed DEF Before, Steps
<1> QED BY <1>4, <1>5, <1>6

LEMMA AnsweredRows ==
    ASSUME TypeOK, RowsInv, NEW f \in Fields, NEW B, step = f, Answered(f, B)
    PROVE  RowsInv'
<1>1. step # "none" /\ step' # "none" /\ step' = AfterStep(f)
  BY StepsListed, NextSteps DEF Answered
<1>2. keys' = keys \cup {f}
  BY DEF Answered
<1>3. "name" \in keys \/ f = "name" \/ "name" \notin keys'
  BY <1>2
<1>4. Before(step') = Before(f) \cup {f}
  BY <1>1, BeforeSteps
<1>5. "name" \in keys' => Before(step') \subseteq keys'
  BY <1>1, <1>2, <1>3, <1>4, BeforeSteps DEF RowsInv, AnswersKept
<1>6. missing' = missing
  BY DEF Answered, row
<1> QED BY <1>1, <1>5, <1>6 DEF RowsInv, AnswersKept, BotRowComplete

LEMMA QuietRows ==
    ASSUME RowsInv, UNCHANGED <<step, keys>>, missing' \subseteq missing
    PROVE  RowsInv'
BY DEF RowsInv, AnswersKept, BotRowComplete

LEMMA RegTextRows ==
    ASSUME TypeOK, RowsInv, NEW f \in Typed, NEW t, NEW B, RegText(f, t, B)
    PROVE  RowsInv'
<1>1. f \in Fields
  BY StepsListed
<1>2. CASE Answered(f, B)
  BY <1>1, <1>2, AnsweredRows DEF RegText
<1>3. CASE AsksAgain(f)
  BY <1>3, QuietRows DEF AsksAgain, row, dialogue
<1> QED BY <1>2, <1>3 DEF RegText

LEMMA RegRows ==
    ASSUME TypeOK, RowsInv, NEW t,
           \/ reg_name(t) \/ reg_birth(t) \/ reg_phone(t) \/ reg_residence(t)
           \/ reg_bank(t) \/ reg_account(t)
    PROVE  RowsInv'
<1>1. /\ "name" \in Typed /\ "birth" \in Typed /\ "phone" \in Typed
      /\ "residence" \in Typed /\ "bank" \in Typed /\ "account" \in Typed
  BY StepsListed
<1>2. \E f \in Typed : \E B : RegText(f, t, B)
  BY <1>1 DEF reg_name, reg_birth, reg_phone, reg_residence, reg_bank, reg_account
<1> QED BY <1>2, RegTextRows

LEMMA RegOthersRows ==
    ASSUME TypeOK, RowsInv, reg_face_photo \/ reg_driver_license \/ reg_security_cert
    PROVE  RowsInv'
<1>1. /\ "face_photo" \in Fields /\ "driver" \in Fields /\ "security" \in Fields
  BY StepsListed
<1>2. CASE AsksAgain("face_photo")
  BY <1>2, QuietRows DEF AsksAgain, row, dialogue
<1> QED BY <1>1, <1>2, AnsweredRows DEF reg_face_photo, reg_driver_license, reg_security_cert

LEMMA StartRows ==
    ASSUME TypeOK, RowsInv, start
    PROVE  RowsInv'
<1>1. UNCHANGED <<keys, missing>>
  BY DEF start, row
<1>2. UNCHANGED step \/ step' = "name"
  BY DEF start
<1> QED BY <1>1, <1>2, BeforeSteps DEF RowsInv, AnswersKept, BotRowComplete

LEMMA ContractRows ==
    ASSUME TypeOK, RowsInv, reg_contract
    PROVE  RowsInv'
<1>1. step' = "none" /\ keys' = {}
  BY DEF reg_contract, RegContract, Clears
<1>2. CASE {"name", "phone"} \subseteq keys /\ Insert(keys)
  <2>1. Fields \subseteq keys
    BY <1>2, BeforeSteps DEF reg_contract, RegContract, RowsInv, AnswersKept
  <2>2. missing' \subseteq {"face_photo"}
    BY <1>2, <2>1 DEF Insert
  <2> QED BY <1>1, <2>2 DEF RowsInv, AnswersKept, BotRowComplete
<1>3. CASE UNCHANGED row
  BY <1>1, <1>3 DEF row, RowsInv, AnswersKept, BotRowComplete
<1> QED BY <1>2, <1>3 DEF reg_contract, RegContract

\* The end of a correction clears user_data while the registration may be open.
LEMMA ClearedRows ==
    ASSUME RowsInv, keys' = {}, missing' \subseteq missing
    PROVE  RowsInv'
BY DEF RowsInv, AnswersKept, BotRowComplete

LEMMA EditsRows ==
    ASSUME RowsInv,
           \/ (\E t : EditText(t)) \/ EditChoice
           \/ EditPhotoBegin \/ PhotoSaved \/ PhotoStored \/ PhotoFails
    PROVE  RowsInv'
<1>1. CASE EditPhotoBegin \/ PhotoSaved \/ PhotoFails
  BY <1>1, QuietRows DEF EditPhotoBegin, PhotoSaved, PhotoFails, AsksAgain, row, dialogue
<1>2. CASE PhotoStored
  <2>1. missing' \subseteq missing
    BY <1>2 DEF PhotoStored
  <2> QED BY <1>2, <2>1, ClearedRows DEF PhotoStored, EditDone, Clears
<1>3. CASE (\E t : EditText(t)) \/ EditChoice
  <2>1. missing' \subseteq missing
    BY <1>3 DEF EditText, EditChoice, AsksAgain, row
  <2>2. CASE EditDone
    BY <2>1, <2>2, ClearedRows DEF EditDone, Clears
  <2>3. CASE ~EditDone
    BY <1>3, <2>1, <2>3, QuietRows DEF EditText, EditChoice, AsksAgain, dialogue
  <2> QED BY <2>2, <2>3
<1> QED BY <1>1, <1>2, <1>3

LEMMA CodesRows ==
    ASSUME RowsInv, NEW c, AskCode(c) \/ CodeEntered(c)
    PROVE  RowsInv'
BY QuietRows DEF AskCode, CodeEntered, row

LEMMA CancelRows ==
    ASSUME RowsInv, cancel \/ Restart
    PROVE  RowsInv'
BY ClearedRows DEF cancel, Restart, Clears, row

LEMMA OthersRows ==
    ASSUME RowsInv,
           \/ my_info \/ edit_info \/ main_menu \/ \E f \in Fields : edit_field_selected(f)
           \/ UNCHANGED vars
    PROVE  RowsInv'
BY QuietRows DEF my_info, edit_info, main_menu, edit_field_selected, row, dialogue, vars

LEMMA WebRows ==
    ASSUME RowsInv, WebStep
    PROVE  RowsInv'
<1>1. UNCHANGED <<step, keys>>
  BY DEF WebStep, create_worker, WithdrawBegin, WithdrawEnd,
         UploadBegin, UploadEnd, dialogue
<1>2. missing' \subseteq missing
  BY DEF WebStep, create_worker, WithdrawBegin, WithdrawEnd, UploadBegin, UploadEnd, row
<1> QED BY <1>1, <1>2, QuietRows

LEMMA RowsStep == TypeOK /\ RowsInv /\ [Next]_vars => RowsInv'
<1> SUFFICES ASSUME TypeOK, RowsInv, [Next]_vars PROVE RowsInv'
  OBVIOUS
<1>1. CASE \E t \in Texts : Text(t)
  <2>1. PICK t \in Texts : Text(t)
    BY <1>1
  <2> QED BY <2>1, RegRows, EditsRows, CodesRows, Zenon
       DEF Text, attendance_code_entered, checkout_code_entered
<1>2. CASE Photo
  BY <1>2, RegOthersRows, EditsRows DEF Photo
<1>3. CASE \E b \in ByButton : Choice(b)
  BY <1>3, RegOthersRows, EditsRows DEF Choice
<1>4. CASE attendance_command \/ checkout_command
  BY <1>4, CodesRows DEF attendance_command, checkout_command
<1> QED BY <1>1, <1>2, <1>3, <1>4, StartRows, ContractRows, CancelRows, OthersRows, WebRows,
        EditsRows DEF Next, Update, WebStep

\* The types hold, and a row that the bot's registration inserts has every
\* answer but perhaps the photo, whatever cleared user_data between the nine
\* questions (worker_bot.py, reg_contract).
THEOREM BotRowsAreComplete == Spec => []ChatInv
<1>1. Init => RowsInv
  BY DEF Init, RowsInv, AnswersKept, BotRowComplete
<1>2. TypeOK /\ RowsInv => ChatInv
  BY DEF RowsInv, ChatInv
<1> QED BY <1>1, <1>2, RowsStep, TypesHold, PTL DEF Spec

-----------------------------------------------------------------------------
(* Photos.  Only a replacement of a row that still exists may leave the    *)
(* row naming a file that was removed: what was begun for a withdrawn      *)
(* account ends without a trace, so the rows of the next account are right *)
(* all along.  A correction that nothing took the new file from stores a   *)
(* name whose file is there.                                               *)

PhotoInv ==
    /\ \/ photo \in disk \cup {"none"} \/ cut
       \/ leaving \/ upload = "row" \/ fetch \in {"row", "saved", "taken"}
    /\ fetch = "saved" => "bot" \in disk

LEMMA QuietPhoto ==
    ASSUME PhotoInv, UNCHANGED <<photo, disk, replacing>>
    PROVE  PhotoInv'
BY DEF PhotoInv, replacing

LEMMA RegPhoto ==
    ASSUME TypeOK, PhotoInv, NEW t,
           \/ reg_name(t) \/ reg_birth(t) \/ reg_phone(t) \/ reg_residence(t)
           \/ reg_bank(t) \/ reg_account(t)
           \/ reg_face_photo \/ reg_driver_license \/ reg_security_cert
    PROVE  PhotoInv'
<1>1. UNCHANGED <<row, replacing>>
  BY DEF reg_name, reg_birth, reg_phone, reg_residence, reg_bank, reg_account,
      reg_face_photo, reg_driver_license, reg_security_cert, RegText, Answered, AsksAgain,
      aside
<1> QED BY <1>1, QuietPhoto DEF row

LEMMA ContractPhoto ==
    ASSUME PhotoInv, reg_contract
    PROVE  PhotoInv'
<1>1. UNCHANGED replacing
  BY DEF reg_contract, RegContract, Insert, aside
<1>2. CASE UNCHANGED <<row, aside, shown>>
  BY <1>1, <1>2, QuietPhoto DEF row
<1>3. CASE Insert(keys)
  BY <1>1, <1>3 DEF Insert, PhotoInv, replacing
<1> QED BY <1>2, <1>3 DEF reg_contract, RegContract

LEMMA EditTextPhoto ==
    ASSUME PhotoInv, NEW t, EditText(t) \/ EditChoice
    PROVE  PhotoInv'
<1>1. UNCHANGED <<photo, disk, replacing>>
  BY DEF EditText, EditChoice, AsksAgain, row, aside
<1> QED BY <1>1, QuietPhoto

LEMMA EditPhotoPhoto ==
    ASSUME TypeOK, PhotoInv,
           EditPhotoBegin \/ PhotoSaved \/ PhotoStored \/ PhotoFails \/ Restart
    PROVE  PhotoInv'
<1>0. fetch \in {"no", "row", "saved", "taken", "gone"}
  BY DEF TypeOK
<1>1. CASE EditPhotoBegin
  <2>1. CASE AsksAgain(field) /\ UNCHANGED aside
    BY <2>1, QuietPhoto DEF AsksAgain, row, aside
  <2>2. CASE fetch' = "row"
    BY <2>2 DEF PhotoInv
  <2> QED BY <1>1, <2>1, <2>2 DEF EditPhotoBegin
<1>2. CASE PhotoSaved
  BY <1>2 DEF PhotoSaved, Saves, PhotoInv
<1>3. CASE PhotoStored
  <2>1. CASE fetch = "saved"
    BY <1>3, <2>1 DEF PhotoStored, PhotoInv
  <2>2. CASE fetch = "taken"
    <3>1. cut' = TRUE /\ fetch' = "no"
      BY <1>3, <2>2, Zenon DEF PhotoStored
    <3> QED BY <3>1 DEF PhotoInv
  <2>3. CASE fetch = "gone"
    BY <1>3, <2>3 DEF PhotoStored, PhotoInv
  <2> QED BY <1>3, <2>1, <2>2, <2>3 DEF PhotoStored
<1>4. CASE PhotoFails
  BY <1>0, <1>4 DEF PhotoFails, AsksAgain, row, PhotoInv
<1>5. CASE Restart
  BY <1>0, <1>5 DEF Restart, row, PhotoInv
<1> QED BY <1>1, <1>2, <1>3, <1>4, <1>5

LEMMA WebPhoto ==
    ASSUME TypeOK, PhotoInv, WebStep
    PROVE  PhotoInv'
<1>0. fetch \in {"no", "row", "saved", "taken", "gone"}
  BY DEF TypeOK
<1>1. CASE create_worker
  BY <1>1, QuietPhoto DEF create_worker, aside
<1>2. CASE WithdrawBegin \/ UploadBegin
  BY <1>0, <1>2 DEF WithdrawBegin, UploadBegin, Removes, PhotoInv
<1>3. CASE WithdrawEnd
  BY <1>0, <1>3 DEF WithdrawEnd, row, PhotoInv
<1>4. CASE UploadEnd
  <2>1. CASE photo' = "web" /\ disk' = disk \cup {"web"}
    BY <1>4, <2>1 DEF UploadEnd, PhotoInv
  <2>2. CASE upload = "gone" /\ UNCHANGED <<row, cut>>
    BY <1>4, <2>2 DEF UploadEnd, row, PhotoInv
  <2>3. CASE cut' = (cut \/ upload = "row") /\ UNCHANGED row
    <3>1. upload = "row" \/ cut => cut'
      BY <2>3
    <3> QED BY <1>4, <2>3, <3>1 DEF UploadEnd, row, PhotoInv
  <2> QED BY <1>4, <2>1, <2>2, <2>3 DEF UploadEnd
<1> QED BY <1>1, <1>2, <1>3, <1>4 DEF WebStep

LEMMA OthersPhoto ==
    ASSUME PhotoInv,
           \/ start \/ my_info \/ edit_info \/ main_menu \/ cancel
           \/ \E f \in Fields : edit_field_selected(f)
           \/ \E c \in Codes : AskCode(c) \/ CodeEntered(c)
           \/ UNCHANGED vars
    PROVE  PhotoInv'
BY QuietPhoto DEF start, my_info, edit_info, main_menu, cancel, edit_field_selected,
    AskCode, CodeEntered, row, vars, aside, replacing

LEMMA PhotoStep == TypeOK /\ PhotoInv /\ [Next]_vars => PhotoInv'
<1> SUFFICES ASSUME TypeOK, PhotoInv, [Next]_vars PROVE PhotoInv'
  OBVIOUS
<1>0. "check_in" \in Codes /\ "check_out" \in Codes
  BY DEF Codes
<1>1. CASE \E t \in Texts : Text(t)
  <2>1. PICK t \in Texts : Text(t)
    BY <1>1
  <2> QED BY <1>0, <2>1, RegPhoto, EditTextPhoto, OthersPhoto, Zenon
       DEF Text, attendance_code_entered, checkout_code_entered
<1>2. CASE Photo
  BY <1>2, RegPhoto, EditPhotoPhoto DEF Photo
<1>3. CASE \E b \in ByButton : Choice(b)
  BY <1>3, RegPhoto, EditTextPhoto DEF Choice
<1>4. CASE attendance_command \/ checkout_command
  BY <1>0, <1>4, OthersPhoto DEF attendance_command, checkout_command
<1> QED BY <1>1, <1>2, <1>3, <1>4, ContractPhoto, OthersPhoto, WebPhoto,
        EditPhotoPhoto DEF Next, Update, WebStep

\* The photo that a row names exists, unless it is being replaced or the last
\* replacement was cut off by a restart, by a failure or by the removal of the new
\* file, although bot and web remove each other's files before they await their
\* own (worker_bot.py, edit_value_entered; workers.py, upload_my_photo).
THEOREM PhotosExist == Spec => []PhotoOnDisk
<1>1. Init => PhotoInv
  BY DEF Init, PhotoInv
<1>2. PhotoInv => PhotoOnDisk
  BY DEF PhotoInv, PhotoOnDisk, BeingReplaced
<1> QED BY <1>1, <1>2, PhotoStep, TypesHold, PTL DEF Spec
===============================================================================
