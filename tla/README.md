# A verification of the school management backend

TLA+ models of `school-sms-backend` (NestJS 11, Prisma on PostgreSQL, Redis), checked with
TLC, and theorems about them proved with TLAPS. Paths below are relative to the
repository (`src/modules/...` is its source directory).

The backend keeps the books and registers of many schools: who is enrolled where, who
attended, who paid what, who is on leave. It is one Node process that answers HTTP requests
and Paystack webhooks. Every `await` gives the event loop to other requests, so two requests
interleave at each database call. There is no queue, no lock and no retry in the code; few
operations are transactions, all at PostgreSQL's default level READ COMMITTED. The unique
indexes and foreign keys of `prisma/schema.prisma` are the only thing that serialises
anything. The container restarts on failure (`restart: unless-stopped`), which ends every
request where it stands. What can go wrong is thus mostly a read that is stale when it is used,
a sequence of writes cut short, and two sequences that overlap.

## 1. Inventory

| Component | State it keeps | Operations | Speaks to | Hard behaviour | What makes it correct |
|---|---|---|---|---|---|
| Payments (`payments`) | `payments`, `payment_receipts` | initiate, handleWebhook, verify, receipts | Paystack (HTTP out, signed webhook in), Fees (`syncLedger`), Notifications, Email | overlapping and repeated deliveries, death between two writes, a clean-up that deletes | money is booked iff collected, once; a receipt and an announcement at most once; the ledger counts it |
| Fees and ledger (`fees`) | `fee_structures`, `bursary_approvals`, `student_fee_ledger`, `expenses` | create and edit fees, approve bursaries, syncLedger, summaries | read by Payments, Students (class) | a sum that is stale when written, overlapping sums | no credit without money; all money credited at rest |
| Leave requests (`leave-requests`) | `leave_requests` | create, decide, list | Attendance (writes its table), Notifications | two submissions, two deciders, death between decision and effect, time zones | no overlap, one decision, effect of the decision |
| Attendance (`attendance`) | `attendance` | bulkSubmit, summaries | Notifications, after the answer | background loop, two writers of one row | alerts for each absence; excuses only with an approved leave |
| Students (`students`) | `students`, `class_enrollments` | create, update, bulkPromote, deactivate, updatePhoto | Classes, Users, Parents | number made up from a count; READ COMMITTED promotions; stale comparisons | numbers without gap or repetition; enrolled in the class of the row |
| Classes (`classes`) | `classes` | create, update, remove | cascades to enrollments, fees, subjects, attendance | count, then delete | a class with students is kept |
| Subjects and timetable (`subjects`) | `subjects`, `timetable_periods`, teacher assignments | create, remove, periods | cascades to assessments | overlap check, then insert; count, then delete | no two periods of a class at one time |
| Assessments (`assessments`) | `assessments`, `scores` | create, update, remove, bulkSubmitScores | read by Report cards | two checks of one bound in two handlers | a score is within its maximum |
| Report cards (`report-cards`) | `report_cards` | generate, publish, read | Assessments, Classes | computed by several reads while scores change | average and position are of one moment |
| Authentication (`auth`) | challenges and cooldowns in Redis, `refresh_tokens` | register, requestOtp, verifyOtp, refreshTokens, logout, logoutAll | Schools (onboarding), Redis, Termii (SMS), Email | counters read and written back, expiry, tokens exchanged in two writes, lost answers | a code starts one session, a session has one live token and ends for a reason |
| Users, Staff, Parents, Schools | `users`, `staff`, `parents`, `parent_students`, `schools` | onboarding, accounts, activation, links | Authentication, Messages and Announcements read roles and `is_active` | lookups per school before an index over all schools; two tables switched in two awaits | an account has its profile; user and staff agree |
| Messages, Announcements, Notifications | `message_threads`, `messages`, `announcements`, `notifications` | threads, messages, fan-out, read marks | everything that tells somebody | what is told is told after the answer, by whoever is in the audience then | the other one and everyone in the audience is told; who is told can open it |
| Seeding (`prisma/seed.ts`) | the rows of a demonstration school | one run, which looks for what is there before it makes it | writes every table, run by hand | dies half-way and is run again | a finished run leaves the school complete and nothing twice |
| Cache | Redis | set, get, del | Authentication | keys expire | - |
| Database client, email, SMS, storage | connections | - | outside services | I/O | - |
| Guards, filters, interceptors, configuration | none | - | - | - | - |
| Queue processors, scores, documents, jobs, pdf | none | stubs or empty files | - | - | - |

The hazards this gives rise to are in `PROJECT.json` ("hazards"), each at its line with the
properties that would catch it.

## 2. Modules

| Module | Role |
|---|---|
| `FeeLedger` | the fee books: fee structures, bursaries, class changes and `syncLedger`, step by step |
| `Payments` | extends `FeeLedger` with the payment table, Paystack and the webhook |
| `Settlement` | what Payments promises about one payment, without requests or retries |
| `PaymentsInv` | the inductive invariant of `Payments` |
| `PaymentsProofs` | theorems about `Payments`, proved with TLAPS |
| `LeaveAttendance` | leave requests and the attendance register they share with the teachers |
| `LeaveProofs` | theorems about `LeaveAttendance` |
| `Enrollment` | students, classes, enrollments and admission numbers |
| `EnrollmentProofs` | theorems about `Enrollment` |
| `Gradebook` | the subjects, timetable, assessments and scores of one class |
| `ReportCards` | extends `Gradebook` with report cards, generated read by read, and their publication |
| `ReportCardsInv` | what half-done requests and generations must satisfy for the properties to hold |
| `ReportCardsProofs` | theorems about `Gradebook` and `ReportCards` |
| `Accounts` | schools, users and their two profiles, links between parents and pupils |
| `Sessions` | extends `Accounts` with one-time codes and refresh tokens |
| `SessionLife` | what Sessions promises of one session |
| `SessionsProofs` | theorems about the codes and sessions of `Office` |
| `AccountsProofs` | extends `SessionsProofs`: theorems about the accounts of `Office` |
| `MessagingProofs` | extends `AccountsProofs`: theorems about threads, messages and announcements, and the types of the whole office |
| `Messaging` | extends `Accounts` with threads, messages, announcements and notifications |
| `Office` | composes the three: one process, shared accounts, restarts |
| `Seed` | the seeding script, with runs that die and are repeated |
| `SeedProofs` | theorems about `Seed` |
| `MCPayments`, `MCLeaveAttendance`, `MCEnrollment`, `MCReportCards`, `MCOffice`, `MCSeed` | symmetry sets and constants for the runs |

### How code becomes actions

The convention is the same everywhere. A *worker* is a request the process is handling.
`pc[w]` names the database (or HTTP) call the request waits to make, `req[w]` holds its local
variables. One action is one call with the code that follows it up to the next `await`; a
`$transaction([...])`, or a transaction whose later statements read nothing, is one action.
`Abort(w)` ends a request at any `await`: the database refuses the call, the connection drops or
the process is restarted. What the request wrote before stays. `PROJECT.json` ("map") gives the
source lines of every definition.

Data is kept as far as the properties tell it apart. In particular

* a ledger row is the *set* of payments and bursaries its `totalPaid` adds up: sets are equal
  only if sums are, and the set says whose money is missing;
* a term and its academic year are one value; a payment or bursary may have none;
* `payment[p].ref` says whether the Paystack reference is stored: only then was the customer
  sent to the authorization URL, and only then does the webhook find the row;
* the register knows the marks present, absent and excused, and excused *for a leave*: the
  other statuses behave like present;
* dates are day numbers, and the time zone of the process is the constant `Offset`;
* admission numbers are their sequence: one school, one year.

### FeeLedger and Payments

`syncLedger` (`fees.service.ts`) is `SumPayments`, `SumBursaries`, `FindClass`, `FindFee`,
`UpsertLedger`: four reads, then one upsert of what they added up to. What the bursar and the families read
(`Collected` of `getFinanceSummary`, `StatementPaid` of `getStudentLedger`) are operators of a property. `CreateBursaryApproval`
starts one, `MarkSuccess` of the webhook another. `initiate` (`payments.service.ts`) is
`CreatePending`, then Paystack's answer (`InitializeAnswered`, or `InitializeFailed` when `fetch`
rejects), then `StoreReference` or `DeletePending`. `handleWebhook` is `FindPayment` or
`SkipProcessed`, `MarkSuccess`, the sync, `CreateReceipt` or `ReceiptExists` (the unique index on
`payment_receipts.payment_id` throws), `Notify`. Paystack is external: it may charge a
transaction whose URL was handed out, and delivers its event at any time and any number of
times (`Charge`, `Deliver`). `ChangeClass` and `RemoveClass` are what Students and Classes do to the
rows a sync reads; here without their own steps, which `Enrollment` has.

`Settlement` has four facts per payment, collected, settled, receipted, announced. The refinement
mapping is `charged`, the successful rows, `receipts`, `notices`.

### LeaveAttendance

`create` is `Submit` (date check and overlap query), `Insert`, `TellTeacher`; `decide` is `Decide`
(the read), `RecordDecision`, and for an approval `FindClass` and `Excuse`, then `TellDecision`;
`bulkSubmit` is `BulkSubmit`, whose background loop `notifyAbsentParents` is `AlertParents`, one pupil
at a time. `WeekdaysInRange` walks local midnights and stores UTC dates as the code does. Workers
come in three kinds so that a run can say how many people of each kind act at once.

### Enrollment

`create` is `FindClass`, `GenerateAdmissionNumber` (count + 1), `CreateStudent` (the transaction) or
`CreateRefused`. `update` reads the student, and writes class and enrollment by comparing with what
it read. `bulkPromote` is one `FindActive`, `FindOldRows`, `DeleteOldRows`, `Move` per student; the
list runs in parallel, so a bulk promotion of n students is n workers. The three actions of the
promotion's transaction model READ COMMITTED: `deleteMany` sees the rows committed when it starts,
waits for rows another transaction has deleted (`NotHeld`), and skips those that are gone.
`deactivate` is one transaction; `remove` of a class counts, then deletes with its cascades. A promotion
that found a student active moves and enrolls the student although a deactivation came between; what
`PromotionMoves` says of the row and the enrollment holds there as well.

### Gradebook and ReportCards

`Gradebook` has three kinds of requests: schedulers place periods (`FindSlot`, the overlap query, then
`InsertPeriod`), heads set assessments (`FindSubject`, `InsertAssessment`) and delete subjects
(`CountAssessments`, `DeleteSubject` with its cascades), graders enter scores (`ReadMax`, `WriteScores`) and
change maxima (`ReadHighest`, `WriteMax`). What is one read followed by a write without a check worth
separating, or one write, is one action (`CreateSubject`, `DeleteTimetablePeriod`, `RemoveAssessment`). One
class, one weekday, one term; rows that are gone are not used again, as ids are not. `Fail` ends a
request before its write.

No code of the repository writes the columns `term` and `academic_year` of an assessment: `create` and
`update` do not pass them on although the DTO of the update has them. As generation looks for exactly
those columns, no assessment made through the API is ever on a report card. The model creates its
assessments so (`InsertAssessment`), and lets some (`Imported`) have their term from the database.

`ReportCards` adds generation. For one student it reads the subjects (`ReadSubjects`), the scores
(`ReadScores`), the classmates (`ReadClassmates`), and for each classmate subjects and scores again
(`ReadOtherSubjects`, `Compare`), before `UpsertCard` stores the average and the position and takes a published
card back. `generateForClass` does this for one student after the other and goes on after a failure
(`Proceed`). Averages are computed as the code does, in hundredths of a percent rounded half up. `Publish`
is one update of the cards of the class. Students changes the class in two ways: `Deactivate`, and
`ChangeClass`, by which an edit or a promotion moves a pupil to another class or into this one
(`active` and `member`; the `Classmates` are the pupils that are both). There is one card per student and
term, whatever the class: `ReplaceCard` is the upsert of a generation for another class. Three variables
are not in the code, and only properties read them: `overtaken` holds the generations during which
something they read was written, `stale` the cards whose data were written since the building of them
began, `strayed` the generations whose student was not in the class at some moment of the building. The attendance
counts of a card are left out: they are stored as read and nothing compares them.

`LeaveAttendance` also has the two summaries of the register, of one pupil's days (`StudentSummary`) and of
one day of a class (`ClassDay`). They do not agree on days of leave: the first leaves them out, the second
counts them in its total.

### Seed

`prisma/seed.ts` goes through five lists (`List`, in the order of `After`): administrators, classes, subjects, class
teachers, pupils. The first three look for a row before they make it (`FindAdmin`, `FindClass`, `FindSubject`), the
others do not. `Die` is the kill, or the row the database refuses because a random number is in use.
What a death leaves is visible to the next run only through those lookups. Two facts a reader may not
expect: the bursar's account is looked for by the role `admin`, so that it is never made in a school that
was onboarded; and every run that is repeated adds teachers and pupils.

### Accounts, Sessions, Messaging and Office

`Accounts` has one request per `clerk`. Creating a school, a staff member or a parent is a lookup (`Onboard`,
`AddStaff`, `AddParent`) and a transaction which the unique index on `users.phone` may refuse; the lookup of
staff and parents asks only in the caller's school, the index holds over all. Editing a user
(`users.service.ts`) is a read, a search for the same phone, a write. `Deactivate` and `Reactivate` write
the user row, then, in another call, the staff row (`SwitchUser`, `SwitchStaff`); `staff.remove` writes both
in one transaction; `update` with `isActive` writes the user row alone. The variable `apart` remembers
for which users the staff row may differ, and why: such an edit, two switches at once, a death between
the two writes. Who may ask what (`AskUsers`, `AskStaff`...) follows the role checks of the
controllers, evaluated in the state the request arrives in; staff and parents have none beyond being
signed in.

`Sessions` has one request per `login`. `requestOtp` is `RequestOtp` (school and cooldown),
`FindContact`, `StoreCode`, `Send`, and `Cool`, or the clean-up `Uncode`, `Uncool`; `verifyOtp` is `VerifyOtp`,
`ReadCode` (which also judges the code), then `DropCode`, `Rewrite` (one attempt more) or
`Consume`, `FindAccount`, `OpenSession`. A challenge is one Redis value, read and written back whole;
`Lapse` and `Thaw` are its expiry and the cooldown's. `refreshTokens` is `Refresh` (the row is read), `Revoke`
(an update that only one request wins) and `Issue`. The answer with a token may be lost (`Hand`). Tokens
are rows; `root`, `from` and `code` are history: which sign-in a token goes back to, which token
it was exchanged for, which code started it. A *session* is the set of tokens of one root. `contested`
remembers codes two requests had in hand at once, `missed` devices that lost an answer.

`Messaging` has one request per `poster`. `createThread` is the upsert and then the message, `sendMessage` the
message and then, after the answer, the notification of the other one (`TellRecipient`); `announce` is
the row and then, after the answer, `ResolveTargets` and `FanOut`. Who lists which thread
(`ThreadsListed`), who opens it (`MessagesShown`) and who lists which announcement (`Listed`) are
operators. Of the pupils it has whose row is active (`pupil`), which the fan-out to a class asks (`Targets`) and
`students.deactivate` switches off together with the account (`DeactivateStudent`); `users.reactivate` restores the
account alone. `due` remembers who has had an announcement in his list ever since it was posted and, if it is to a class,
has been an active pupil of it all the while (`Owed`), `cut` what a request that died was at.

`Office` puts the three side by side over the same accounts: a session or a message meets the roles, links
and switches that requests about accounts have left. `Restart` ends every request of all
three at once, the background ones too; `Register` is the one call that belongs to two of them: it
onboards a school and goes on to ask for a code.

`SessionLife` is the abstract specification: a session is opened once and ends once. The refinement mapping
calls a session open while one of its tokens is live *or* a refresh that took the last one is about to
make the next (`GoesOn`).

## 3. Runs

| Run | Question | Bounds |
|---|---|---|
| `payments_safety` | do the books stay right when webhooks overlap and requests die? | 2 requests, 2 payments, 1 bursary, 1 death, 1 edit |
| `payments_serial` | is the ledger complete when requests run one at a time? | 1 request, 2 payments, 1 bursary, 2 students, 2 terms, 1 edit |
| `payments_live` | does collected money get settled, receipted and credited in the end? | 2 requests, 1 payment, 2 bursaries, 2 deaths |
| `payments_lost_receipt` | (violated) does every successful payment get a receipt? | 1 request, 1 payment, 1 death |
| `payments_stale_ledger` | (violated) is the ledger complete when webhooks overlap? | 2 requests, 2 payments |
| `leave_safety` | do leaves, decisions and the register agree, does an approval take effect, is an absence told? | 1 parent, 1 decider, 1 teacher, 2 students, 2 leaves, days 5 and 6 (a Friday and a Saturday), 1 death, 1 sheet |
| `leave_two_deciders` | (violated) is a decision final with two deciders? | 2 deciders |
| `enrol` | do admission numbers, enrollments and promotions stay right while students are deactivated and classes deleted under them? | 2 enrollers, 1 editor and promoter, 2 deactivators, 1 remover (3 workers), 3 students, 2 classes, 3 edits |
| `enrol_two_promotions` | (violated) does a promotion leave one enrollment when two, into different classes, overlap? | 2 promoters, 1 student, 3 classes |
| `cards` | is a card right, or at least possible, while the gradebook and the class change under its generation, and do the cards of a class agree? | 1 clerk of all kinds, 1 generator, 2 subjects, 2 periods in 3 times, 2 assessments, 2 students, 3 writes, 2 generations |
| `seed` | can the seeding script be run again after it died? | 3 runs, dying anywhere, 2 classes (one there before), 3 subjects, 1 pupil per class |
| `office` | do accounts keep their profiles, sessions their one live token, and is everyone told, while all three change under each other's feet? | 2 requests of each kind, 2 schools, 6 users, 5 phones, 2 devices, 4 tokens, 2 messages, 1 announcement, 2 attempts per code, and an agenda |

**Bounds.** In `office` every behaviour draws an *agenda* first: how many requests about accounts, sessions
and messages, and how many deaths it has (`budget`, `Agendas`). All three kinds at full width at once
would be out of reach, and most of it is independent. The agendas (accounts, sessions, mail, deaths) are
(2,0,0,1), (1,2,0,0), (0,3,0,1), (0,4,0,0), (0,0,3,1), (1,0,2,0) and (2,0,1,0): each kind against itself with a death,
and accounts against each of the others, in the last one with time for a pupil to be deactivated and his account
reactivated around an announcement; only the theorems cover more. When no session is on the agenda none is
open at the start. Elsewhere: every hazard here is a race of two requests over one row, or a death between two writes
followed by one redelivery. Two workers of the racing kind, two rows that can be confused, and one
death (two where the retry may die as well) reach all of them; a third worker only repeats what
one of the two does. The bounded counters are `aborts` (`MaxAborts`), `changes` (`MaxChanges`, edits of
fees and of class membership), `sheets` (`MaxSheets`), `edits` (`MaxEdits`), `writes` (`MaxWrites`), `builds`
(`MaxBuilds`) and `runs` (`MaxRuns`, runs of the seeding script); each guards the actions that count it and nothing else. In `cards`, three writes reach a
subject with an assessment and a deletion that meets it, two periods and a third that wants a slot, and a
score with a change of the maximum around it, and a pupil who is deactivated or moved between two reads; two
generations reach a card that is generated again, by itself or with the class. Payments, bursaries, leaves and students are not recycled, so
their sets bound how many are ever created. The theorems of section 4 hold for every bound.

Deadlock is not checked: when every payment, leave or student of the model has been used and the
bounds are reached the model stops, as a school with nothing left to do would.

**Fairness.** `payments_live` and `leave_safety` assume that the event loop comes back to a request whose
call was answered (`WF(Advance(w))`), which Node guarantees and the code does nothing to prevent, and
that Paystack redelivers an event until it is answered with 200 (`SF(Redeliver(p))`). The process takes
every request it is sent; strong fairness is needed only because the model has finitely many
workers, which a delivery may find busy again and again. Nobody is assumed to initiate, charge, submit or
decide anything, and no request is assumed to survive: `aborts > 0` is an alternative in the
properties that need it. `office` assumes no fairness: what must happen in the end (a notification) is
stated as what cannot be missing once nobody is working at it (`AudienceTold`, `Correspondence`).

**Violated runs.** Each is a disagreement of the code with its own comment or error message;
`PROJECT.json` ("findings") quotes them. In short: a webhook that dies after it marked its payment
loses the receipt for good, as redeliveries stop at the idempotency check; overlapping syncs may take a
payment out of a ledger row again; two deciders overwrite each other; two promotions of one student
into different classes leave two enrollments.

Further variants can be had by changing constants: two `Parents` break `NoOverlap` (query, then
insert), and so do two deciders (the loser of a race turns a rejected leave, whose days were asked for
again, into an approved one); an edit that overlaps another edit or a promotion of the same student breaks
`CurrentClassEnrolled` (a stale comparison); two `Schedulers` break
`NoDoubleBooking`, two `Graders` `ScoreWithinMax`; two `Heads` delete a subject with a new assessment; and with `Offset = 1` (a server
east of UTC) a leave excuses the day before each of its days, which breaks `OnLeaveApproved`. That is why
those properties are checked with one worker of the kinds concerned, and in UTC, which is what the
container has.

Symmetry is used in runs that check safety and refinement without fairness only; in `office` requests of
one kind are interchangeable. In `payments_safety` and `payments_serial` all
permuted sets enter the specification symmetrically and the properties quantify over them.

## 4. Proofs

Every safety invariant and action property of the runs that pass, and both refinements as far as they
are safety, is a theorem for any sets of requests, rows and values and any bounds. The assumptions are those
that the modules state of their constants, which TLC evaluates in the runs: `None` is no row and no value,
tables are finite where something counts them or adds them up, and the initial rows of `FirstUsers` are a school that exists.
Some theorems have a hypothesis besides, because the property is false without it; it is
named below each time, and either a run that is violated or a variant of section 3 shows why it cannot be dropped.

None of the properties is inductive: they speak of tables, and what breaks them is what a half-done
request is about to write. What a proof adds in each module is therefore a description of requests between
two awaits, and most of the work is to show that no other request makes that description stale.

### Payments (`PaymentsProofs`, from `NoneAssumption`, `NumberAssumption`, `IdentityAssumption`)

* `TypeCorrect`, `LedgerNeverOvercredits` (`LedgerSound`), `AnnouncedOnce` (`NotifiedOnce`),
  `BooksAgreeWithPaystack` (`BooksFollowPaystack`), `ReceiptsFollowLedger` (`ReceiptAfterLedger`);
* the action properties `SuccessStays` (`SuccessIsFinal`) and `OwnPaymentIsCredited` (`OwnPaymentCredited`);
* `RefinesSettlement`: `Payments` implements the safety part of `Settlement`;
* `SyncsApartLedgerComplete` (`QuietLedgerComplete`) as long as no two syncs of one student and term overlap
  (`SyncsApart`), and `OneAtATimeLedgerComplete` for a process that serves one request at a time.

`PaymentsInv!IInv` is the invariant. `InitiateInv`: one request initiates a payment,
and until it is through the row is pending without a reference, so the clean-up cannot delete what
a customer can pay. `WebhookInv` and `MarkedInv`: a webhook, and the sync it calls, work for a charged
payment, and from `mark` on the row is successful. `NoticeInv`: the one request that may still
notify holds the receipt it inserted. `FrameSound`: the sums a sync holds are of booked
money; as successful payments and approvals are never taken back, old sums stay sound although they
become incomplete, which is why `LedgerSound` holds and completeness does not. `OwnPaymentSummed`:
a webhook marks before it sums. The four groups `IType`, `ISettle`, `INotice`, `ILedger` are proved
inductive one after the other, each with the ones before it, one step per action.

For completeness `IQuiet` says that, while nobody has died, each row is complete or a sync of it is under way,
and that the sums of a sync under way are up to date (`FrameComplete`). Booking money starts a sync, which the hypothesis
makes the only one; every other step `LeavesBooks`. `payments_stale_ledger` shows two syncs that overlap.

### Leaves and attendance (`LeaveProofs`, from `LeaveAssumption`)

* `TypeCorrect` (`LeaveTypeOK`), whoever is at work: a request has looked up what it goes on with;
* `DecisionsApartFinal` (`DecisionIsFinal`) as long as no two decisions on one leave overlap (`DecisionsApart`).
  `DecisionInv`: what was read as pending is pending when it is written, and an approval is approved while its
  days are excused, because the other decisions under way are on other leaves;
* `ApartNoOverlap` (`NoOverlap`) if no two submissions for one student overlap either (`SubmissionsApart`).
  `SubmissionInv`: the days that were found free are free until the insert;
* `ApartOnLeaveApproved` (`OnLeaveApproved`) under `DecisionsApart` and with `Offset = 0`: walking local
  midnights meets exactly the school days of the leave (`WeekdaysInUTC`);
* `OneOfEach`: the hypotheses hold when one person decides and one parent at a time submits, as in `leave_safety`;
* `ExcusingCountsNeither` (`LeaveCountsNeither`) for finitely many students and days: an arithmetic fact about
  `StudentSummary` and `ClassDay` before and after `Excuse`.

`leave_two_deciders` shows what two decisions at a time do.

### Students and classes (`EnrollmentProofs`, from `EnrollmentAssumption`)

* `TypeCorrect` (`EnrollTypeOK`);
* `NumbersConsecutive` (`AdmissionNumbers`) for any interleaving: a number made up is at most one more than the
  number of students, because students are never deleted, and the unique index lets it in only when it is exactly that;
* `EditsAloneClassEnrolled` (`CurrentClassEnrolled`) as long as no edit overlaps an edit or a promotion of the same
  student (`EditsAlone`). `SeenOK`: the class an edit compares with is the student's class, or is gone. Promotions
  may overlap as they like: rows a promotion has deleted and not committed are held, so that nobody else
  removes what it is about to replace, and a promotion deletes rows of its own student only (`OwnRows`);
* `PromotionsAloneMove` (`PromotionMoves`) as long as no promotion overlaps an edit or a promotion of the same
  student (`PromotionsAlone`). `PromotionInv`: from `deleteMany` on the rows it deletes are all the student has,
  which deactivations and deletions of classes only make fewer;
* `ClassEnrolled` and `OnePromoterMoves`: the hypotheses hold if one person edits and promotes, as in `enrol`,
  the first one also if nobody edits. `enrol_two_promotions` shows two promotions that overlap.

### Gradebook and report cards (`ReportCardsProofs`, from `GradebookAssumption` and `ReportAssumption`)

* `BookTypeCorrect`, `ReportTypeCorrect` (`ReportTypeOK`);
* `PlacementsApartNoDoubleBooking` (`NoDoubleBooking`) as long as nobody places two periods of overlapping times at
  once (`PlacementsApart`), and `GradingsApartScoreWithinMax` (`ScoreWithinMax`) as long as no sheet overlaps a new
  maximum of its assessment (`GradingsApart`): two sheets may, and so may two new maxima.
  `OneSchedulerNoDoubleBooking` and `OneGraderScoreWithinMax` are the cases of one scheduler and one grader,
  as in the `cards` run. The invariants they
  need are `SlotFree` and `BoundsHold` of `ReportCardsInv`: what a request compared with before its
  `await` is true after it, which only another request of its kind can spoil;
* `PositionAlwaysInClass` (`PositionInClass`) without any such hypothesis: classmates counted above and
  classmates still to compare fit into the class that was counted, and the student with them unless he
  was out of the class since the building of his card began (`RankFits`, `StrayInv`), whatever scores say at each
  comparison and whoever is deactivated, leaves or joins;
* `CardAlwaysOfOneMoment` (`CardOfOneMoment`). `MomentInv`: until a write overtakes a generation, its subjects
  and its average are those of the tables, and the number it has counted is that of the better classmates it is
  through with; each comparison moves one classmate from one side to the other;
* `StandingsAlwaysAgree` (`StandingsAgree`). `FreshInv`: a card that is not stale has the average, the place and
  the class size one would compute now; the better of two averages has fewer above it, by at least itself;
* `GradingsApartAverageWithinHundred`: under `GradingsApart` no average is above 100 percent (`AverageWithinHundred`).

That an average is a number, and that a sum of smaller scores is a smaller sum, are facts about `SumFunctionOnSet`,
a recursive function that the library defines with `CHOOSE` over the subsets of a set. The induction theorems of the
library cannot be used (their parameter is an operator), but `WFMin` can: among the subsets for which a
claim were false there is a smallest (`SmallestSubset`). From this the section on sums proves that the recursion has a
solution (`SumExists`), that two solutions agree (`SumUnique`), the step from a set to the set without an element
(`SumSplit`), and the three facts that are used, `SumOfNumbers`, `SumPositive` and `SumMonotone`.

### The office (`SessionsProofs`, `AccountsProofs`, `MessagingProofs`, from the assumptions of the office's modules, whatever the agenda)

Sessions:

* `OneLiveTokenAlways` (`OneLiveToken`). By itself this is not inductive: nothing in it says that the token
  which a refresh is about to create has no rival. `Inv` follows a token from the moment a request has
  it in hand: `Unique` says that at most one request is between its two writes for a session, and then no
  token of it is live; `Exchanged` that a token that was exchanged is revoked, and so is
  one whose exchange is under way, with no successor yet; `Rooted` that rows not yet made are
  blank, so that a new one collides with nothing. Every step of the office is `Quiet` (no token moves),
  `Demotes` (live tokens go) or one of `OpenSession`, `Revoke` and `Issue` (`StepKinds`);
* `SessionsImplementSessionLife` (`ImplementsSessionLife`): every step but `OpenSession` only
  `Shrinks` what is going on, and that is a step of `SessionLife` or none;
* `SessionsEndForAReason` (`SessionEndsForAReason`);
* `CodesStartOneSession` (`CodeStartsOneSession`). `CodeInv` follows a code: it waits under one key (`OneKey`); unless it is
  contested, one request has it in hand (`OneReader`), and once a request has consumed it (`OneOpener`) or a session has come of
  it (`OneSession`), it waits nowhere and nobody has read it, so that nobody puts it back;
* `HoldersCanRefresh` (`HolderCanRefresh`). `HolderInv`: each session has one device, and the live token of a
  session is the one its device holds unless an answer to it was lost.

Accounts:

* `RowsStayTogether` (`RowsTogether`): `RowsOK` says that a row that is not there is blank and that nobody is staff and
  parent at once, `TaskFits` what a request has in its locals at each call. Rows are never deleted, so what was looked up is there;
* `StaffFollowsUsers` (`StaffFollowsUser`): `SwitchInv` says that a request between the two switches of a user that is not marked as
  crossed is the only one there, with the user row as it left it.

Messages and announcements:

* `ThreadsStayOwn` (`ThreadsAreOwn`), `CorrespondenceReaches` (`Correspondence`), `AudienceIsTold` (`AudienceTold`). The
  first is about parents and teachers, whatever profile they have; of heads it says nothing (section 5). The
  invariant `MailInv` has what a poster knows at each call (`DraftOK`), that a message without a notification has a
  request that is about to make it or a death that is remembered (`LettersInv`), and that whoever is due an announcement
  is among the targets a fan-out resolves (`NoticesInv`, `OwedAreTargets`: the account of a pupil is of no other pupil);
* `OfficeTypeOK` (`TypeOK`), the types of all three, which rests on all the invariants above.

### Seeding (`SeedProofs`, from `SeedAssumption`)

`SeedTypeCorrect` and `SeedAlwaysResumes` (`SeedResumes`). What the tables hold follows from what is
`Left` of the lists: whatever is not left of a list is there (`SoFar`), because the sections come in a fixed order; what is
looked for before it is made is there once (`AdminsOnce`, `TeachersOnce`), pupils are as many as the runs that enrolled them
account for (`PupilsCounted`), and accounts without their second row are at most as many as the deaths (`TornCounted`).

### What is model-checked only

The properties under fairness, `ImplementsSettlement`, `ReceiptedUnlessDied`, `ApprovalReachesLedger`, `ApprovalExcuses` and
`AbsenceAlerted`: TLAPS 1.4.5 has no rules for `ENABLED`, which `WF` and `SF` are defined with. The
four violated runs are counterexamples, which are TLC's to find.

## 5. Not modelled

* Validation of single fields, pagination and the order of listings: they change no state. Of access control
  the role checks are modelled where roles change (`Accounts`, `Messaging`).
* Signature checking of the webhook, and of access tokens: a delivery or a caller is one that passed it.
* Expenses, photos, names and other plain columns: one write each, nothing reads them back.
* Email, SMS and storage: pure I/O; a failure of theirs is caught by the code (`Send` has both answers), or is
  an `Abort`.
* Reading a Paystack transaction (`verify`) changes no row.
* Several processes: the compose file starts one. The models would not change, since they assume
  nothing of the process but its `await`s.

Known and without a property, because neither code nor docs promise more: a payment whose `fetch` is
rejected stays pending; editing a fee recomputes no ledger; a repeated bursary approval is a second one;
a clean-up after a failed delivery deletes a newer code of the same phone (`auth.service.ts:215`, modelled
by `Uncode`); two admins who deactivate each other leave their school without one
(`users.service.ts:147`); parents are told of an announcement to a class and never list it
(`announcements.service.ts:83`, modelled by `ClassFilter`); a pupil deactivated as a student and reactivated as a
user (`students.service.ts:403`, `users.service.ts:172`) lists the announcements to his class
(`announcements.service.ts:85` does not ask for `isActive`) and is told of none of them
(`announcements/services/index.service.ts:113` does), which is why `AudienceTold` asks for an active pupil (`Owed`); the sessions of a closed school are refreshed as
before (`auth.service.ts:552` asks for the user only); a balance is cut off at zero (`fees.service.ts:215`), so
that what was paid too much for one term does not count for another, and a payment without a term is in no row; a
pupil who is moved or deactivated while his card is built may get the place after the last one, and keeps the card of
the class he left (`students.service.ts:339`, `:456`, `PositionInClass`); reading a card back (`findOne`,
`report-cards.service.ts:195`) computes results and summary from the scores of that moment, published or not, and no
call returns the stored average or position but the generation itself, so that what is proved of cards is about what
is stored.

The code also disagrees with a comment that no run quotes: `messages.service.ts:356` says "Admin/principal sees all threads
in school", but lines 341 to 354 have returned by then for an admin, a principal and a vice principal, with the threads
of their own staff profile or none. What reaches the comment are bursars, counsellors and pupils, who list every thread of the school
(`ThreadFilter`) and open only their own (`IsParticipant`), while heads open every thread (`messages.service.ts:360`) and
list their own. `ThreadsAreOwn` therefore says nothing of heads; which of the two is meant the code does not tell.

## 6. Plan

1. Composition of `Enrollment` with `Accounts` (a pupil's account) and with `FeeLedger` (the class of a student).
2. Theorems about the operators of the summaries and of the fee rows that no property of a run states yet.
