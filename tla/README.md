# A TLA+ development for Cursus (cvrsus)

Cursus is a recruitment platform: one Node process (Express, better-sqlite3)
serves candidates, who upload a CV, and organizations, which pay for *seats*
(recruiter accounts), for *reveals* (the identity of a candidate) and for
*triage capacity* (CVs they upload to be read, ranked and analysed by a model).
The modules here describe the part of the program where state, money and
asynchronous work meet, and are checked with TLC and proved with TLAPS.

The code is read as it is: database access is synchronous, so a handler is one
step up to the next `await`; whatever other handlers or the queue worker do
happens at those points. A crash may come between any two transactions.

## Inventory

| Component | Source (`server/src` unless named) | State | Operations | Hard part | Modules |
|---|---|---|---|---|---|
| Triage queue | `triageQueue.js` | `triage_batches`, `triage_applicants`, `analysis_frontier`, `triages.status` | parse, preliminary, initial and rolling batches, retry, resume, waker | one worker with awaits between CVs, work identified by keys, permanent failures, restarts | `TriageQueue` |
| Triage sessions | `triage.js`, routes in `index.js` | `triages`, `triage_drops`, `triage_applicants` | upload, launch, add CVs, scroll, retry, remove a CV, pause, close, delete | rows written before they are paid for; versions of one person's CV | `TriageQueue`, `Retention` |
| Triage billing | `wallet.js` | `triage_cv_balance`, `charged_cvs`, `refunded_cvs`, `billing_ledger`, `triage_allowance`, `triage_used` | purchase, share, charge a delivery, return unreadable CVs, return a session, attribute old charges | sweeps that run again; three generations of sessions | `TriageBilling`, `TriageWallet` |
| Reveal wallet | `wallet.js`, reveal route | `reveal_balance`, `reveal_allocation`, `allocation_used`, `organization_reveals`, `reveals`, `billing_ledger` | grant, purchase, top-up, reveal, allowances, equal split | an allowance read before an await, two transactions per reveal | `RevealWallet` |
| Seat subscription | `wallet.js`, seat routes | `purchased_seats`, `seat_plan_*`, `recruiters` | buy, reduce, apply a due reduction, create and delete accounts | reductions applied by whoever reads first | `SeatPlan` |
| Recruiter accounts and sessions | `accounts.js`, `auth.js` | `recruiters`, `companies`, reset tokens, cookies | create, log in and out, change and reset a password, delete | hashing is an await; one live session per recruiter | `Sessions`, `Passwords` |
| Candidate accounts | `profiles.js`, `verification.js`, `summary.js` | `candidates`, codes, documents, files | apply, codes, edit, summary, erase | work in the background that outlives what it read | `Profile`, `Codes` |
| Contacts and schema | `db.js`, `schema.js`, `scripts/candidates.mjs` | `email_key`, `phone_key`, two partial indexes, `app_settings` | open the database, build an index, exempt a contact | two processes with two lists | `Contacts` |
| Check-ins, availability | `checkins.js`, `availability.js` | `freshness_checkins`, `availability_checks` | ask, answer, expire | an answer racing expiry, one email for many recruiters | `Freshness` |
| Retention | `retention.js`, the boot sweep of `index.js` | `purge_after`, `completed_at`, uploads on disk | fall due, delete, unlink, sweep files | clocks that several acts restart; files and rows in two places | `Retention` |
| Messaging, folders, chats | `workspace.js`, `chats.js` | threads, messages, folders, items, saved searches, dismissals | write, clear, mark, close; file, save, dismiss; a colleague leaves | state per party; ids held in other tables | `Conversations`, `Shortlists` |
| Public demo | `publicDemo.js` | `public_searches`, `public_demo_runs`, nobody's jobs and sessions | search, triage, claim, sweep | a sweep beside searches in flight and claims | `PublicDemo` |
| Matching | `matching/`, `match.js` | sessions, cursors, cached analyses, labels | search, Show more, resume, judge, score | pages and caches across awaits; arithmetic | `Search`, `Scoring`, `Keywords` |
| Model calls | `ai.js`, `costs.js` | the ledger of costs | ask a batch, retry, abort | workers, refusals, what is billed | `Judging` |
| Score migration | `server/scripts/score-migrate.mjs` | `score_migration_runs`, `_rows` | move, refresh, revert, prune | a walk over a table that lives | `ScoreMigration`, `Scoring` |
| Client | `client/src/`: `TriageTab.jsx`, `HrPanel.jsx`, `SearchHero.jsx` | rows and counts of a session's page; box, results, saved search of the search page | poll, Show more, add CVs; search, save, reopen, rule out | answers in any order | `TriageScreen`, `SearchScreen` |
| Payments | `billing.js`, `pricing.js` | none | charge | an external processor behind a seam | inside `SeatPlan`, `RevealWallet` |

The components meet in the routes of `index.js`. A recruiter's account takes a
seat (seat subscription), which changes the shares of both wallets; a reduction
that falls due deletes accounts, and with them their allowances. A triage route
charges the organization through `wallet.js`, writes rows through `triage.js`
and queues work in `triageQueue.js`, which refunds through `wallet.js` again; the
page of the session polls what comes of it, and retention ends it. A candidate's
edit starts extraction, labels, summary and vector, which a search reads under the
version of the profile; their erasure removes them from all of these, from pools of
searches, folders, conversations and the manifests of the score migration.

What makes each component correct, in a sentence: the history replays to what is
held; nothing is charged twice, and nothing that was not delivered stays charged;
nobody is given more than was bought; a paid month is kept and a paid CV is read;
the status a recruiter sees is what the rows say; one account is open in one
browser, and a link or a code works once; what is shown was judged as it is and may
be shown; what was written last, or deleted, stays so; a file and its row come and go
together. `PROJECT.json` lists the components that are left out with the reason, and
the hazards of the code, each with the property that would catch it.

## Modules

| Module | Models |
|---|---|
| `SeatPlan` | the seat subscription of one organization |
| `RevealWallet` | its reveals: balance, shares, charges |
| `TriageQueue` | one triage session: deliveries, money, queue, status |
| `TriageBilling` | what `TriageQueue` promises about money (abstract) |
| `TriageWallet` | the prepaid CV capacity: pool, allowances, charges of every generation |
| `Freshness` | one candidate's silence, reminders and answers, and who asks about them |
| `Sessions`, `Passwords` | recruiters in browsers; accounts, usernames, passwords, links |
| `OneTimeCode`, `Codes` | what a code promises (abstract); sign-up and sign-in codes of one candidate |
| `Contacts` | one mailbox, one profile: guards, indexes, exemptions, two processes |
| `Profile` | a profile, its files and everything read out of its CV |
| `Paging`, `Search` | what paging promises (abstract); searches of one recruiter for one job |
| `Judging` | one batch of candidates before the model |
| `Scoring`, `Keywords` | what verdicts are worth, stored and migrated; the score without a model |
| `Shortlists`, `Conversations` | folders and saved searches of a team; one conversation |
| `PublicDemo` | visitors of the landing page, claims, the sweep |
| `Retention` | how long CVs are held, and their files |
| `ScoreMigration` | the script that moves stored scores beside the server |
| `TriageScreen`, `SearchScreen` | the page of a session and the search page in the browser |
| `SeatPlanProofs`, `RevealWalletProofs`, `FreshnessProofs`, `TriageQueueProofs` | theorems about the module of that name |
| `AccountsProofs` | theorems about `Sessions`, `Codes`, `Passwords`, `PublicDemo`, `TriageWallet`, `Contacts` |
| `WorkspaceProofs` | theorems about `Shortlists`, `Conversations`, `Search`, `Judging`, `Profile`, `Scoring`, `Keywords` |
| `OfficeProofs` | theorems about `Retention`, `ScoreMigration`, `TriageScreen`, `SearchScreen` |
| `DataLemmas` | facts about numbers, finite sets, sequences and sums that the proofs share |
| `MCTriageQueue` | instances of `TriageQueue` for TLC |
| `MCCalendar` | instance of `SeatPlan` and `Freshness` |
| `MCRecruiter` | instance of `RevealWallet` and `SearchScreen` |
| `MCAccounts`, `MCWorkspace`, `MCOffice` | instances of the other modules |

The comment at each variable names its column, the comment at each action its
function or route. Definitions that begin with "Faulty variant" in their comment
are deliberate mistakes in the definition that follows them; they are part of no
specification and show that a property can tell the mistake from the code.

**SeatPlan.** `ApplyDue` is `applyDueSeatChange`, run by everything that reads the
entitlement, and so conjoined to every handler that does. Two handlers are cut at
an `await`: creating an account (`RequestJoin`, `FinishJoin`) and a plan that is
charged for (`RequestIncrease`, then `IncreasePaid` or `IncreaseDeclined`). The
end of the paid month is the action `MonthEnds`: only whether the date has passed
matters. The administrator's account is implicit, it is never removed.

**RevealWallet.** `Answer`, `Charge` and `Conclude` are `consumeReveal` and the end
of the reveal route; the only await is the automatic top-up, over which a request
keeps the allowance it read. `Renewal` is what a reduction of the seat plan does to
the wallet. `charges` counts how often a candidate was charged for and is history.
`Restart` loses the requests in flight and runs the boot migration.

**TriageQueue.** The pump is one worker. A batch is claimed (`Claim...`), goes on CV
by CV (`ReadCv`, `AnalyseCv`: the awaits) and ends (`Finish...`, `RankCvs`); it may
throw at any of these points (`BatchRetried`, `SessionFails`, `DeliveryFails`,
`RangeFails`). `AddCvs` and `ChargeAdded` or `RefuseAdded` are the two halves of
the route that adds CVs: it unlinks the files it turned away between its rows and
its charge. Routes may run wherever the worker waits. `Settle` is `settleStatus`.
Keys carry what the code puts in them, so that a key that is used again is ignored
in the model as it is by the unique index.

Abstractions of `TriageQueue`: a CV is its upload number and its sender; `unreadable`
and `failed` are one parse state; the order the preliminary scorer finds is arbitrary;
attempts are counted up to the maximum only; the files of a batch are read in any
order, one at a time; a person who removes a file from a draft and one who
removes a CV from a session take the same step. Sessions older than
deliveries, allowances and deletion are in `TriageWallet`, pausing and closing in
`Retention`; the rollback of a launch whose queueing throws and size caps are not modelled.

**Freshness.** One candidate. The daily sweep (`runCheckinSweep`) stops at an await for
every email; since other candidates' emails are awaited too, anything may happen between
any two of its steps for this one: `HideStale`, `MailHidden`, then `CollectDue` or
`NobodyDue`, the reminder (`MailReminder` and its three outcomes), `ExpireChecks`. What is
read before an await is kept in `sweep`. `swept` stands for the daily timer, which `Day`
and `Restart` (the boot sweep) set going again. A day passes at any point. `silent` is the
age of the last activity in days, `left` the days of a link or of a question. A lost
email is a link nobody uses. Answers come by link, in the account, or by reactivation;
`Resolved` is `resolveAvailabilityChecks`, run by the first two only. Recruiters ask
through `RequestCheck`, one question open for each. `told` is history. Abstractions: a
candidate has an address or has none for good; whether a redeemed link is used or unknown
is not told apart; two sweeps do not overlap (emails time out, the timer is daily).

**TriageWallet.** Every handler is one step but adding CVs (`RequestAdd`, then `FinishAdd`):
the allowance is asked before the await and the charge is made after it. `loose` are the
CVs of a session in no delivery, `Adopted` is the move of an old charge onto the first
delivery (`adoptSessionCharge`), `Boot` the attribution at start. The queue's two
returns are `SweepDrop` and `SweepLoose`; that they run again after a retry is what
`refunded` is for. `drawn`, `ledger`, `credits` and `even` are history.

**Sessions, Passwords, Codes.** A sign-in, a creation of an account and every password
change are cut at `scrypt`. `jar` is what a browser's cookies hold, `hint` the readable
cookie, `torn` the browsers in which two sign-ins overlapped. In `Passwords` the requests
that set a password are one action with four origins. In `Codes` a row is its number, age
and wrong guesses; `SignIn` and `SignUp` are the two instances of `OneTimeCode`.

**Contacts.** An address is a key and a spelling of it; a number is found by its key.
`OpenDatabase` and `EnsureContactIndex` are the top level of `db.js` in two processes,
`Apply`, `BeginEdit` and `FinishEdit` the routes, `OperatorSets` and
`SetExemptContacts` the script. `excused` collects the keys whose sharing has a reason. Left out: an address nobody
has, with nine digits or more in it, is looked up as a phone number too (`db.js:1367`).

**Profile.** A CV is the number of its upload. A request is cut where the file is read,
stored and unlinked; a task of the background goes through extraction, labels, summary
and vector with what it read when it started. `overtaken` says that work was in flight as
the account was erased. An application may bring words of its own (`index.js:1837-1840`), which stay
unscreened until its extraction comes to the summary (`2141-2164`). One that fails after its row was
inserted, when the `catch` discards its files (`1896`), is modelled as a crash only.

**Search, Judging.** A page awaits the model before retrieval and before the answer; a judgement is kept
under person and version. `crossed` are the people whose CV changed while the model read
it. `Judging` has the inside of that await: the leading call, the workers, the second
attempt, refusals, the abort of a browser that left, and the books.

**Scoring, Keywords.** The arithmetic in hundredths and tenths, rounded where the code
rounds. `Scoring` follows one stored judgement through a changed setting, a migration from
the older arithmetic and a refresh; `Keywords` enumerates what two CVs may evidence of a
job. What counts as found in a text is not modelled.

**Shortlists, Conversations.** No handler awaits; the interest is in long sequences. The
clock of `Conversations` ticks between any two steps or does not.

**PublicDemo.** Two awaits for a search; an `era` is the time in which an allowance is new
or an artefact is due for the sweep, and none passes while a search is in flight.

**Retention.** Days are numbered; `Expire` is the daily sweep with its unlinks a step each,
`RestartServer` the sweep of files at boot. `rest` counts the days since somebody last
gave, opened, paused or closed.

**ScoreMigration.** The script reads a page (`ReadPage`) outside the transaction that
writes it. `StartRun`, `CompleteRun`, `KillMigrator` and `Revert` keep the manifest;
`AskModel` and `StoreJudgement` are the search beside it, another process.

**TriageScreen.** Applicants are numbered by fit. The server runs one batch after the other: `ReadDelivery` is
`runParse`, `RankDelivery` is `runPreliminary`, which ranks a delivery behind everything and queues the next
range of the ladder, whosever CVs are there; `FinishAnalysis`, CV by CV, and `SkipBatch` are `runDeep`;
`WithNextRung` is `requestNextTranche`. The last score of a range and the frontier are one step, as they are one turn
of the event loop. `Quick` are preliminary scores, which need not agree with fit. The CVs of a delivery are read in one
step, the list being the same throughout; batches here neither fail nor lose CVs (that is `TriageQueue`).

A request is put on a wire, answered by the
server and heard by the page in three steps; nothing orders two wires, and a wire may be
lost. `misled` is set when an answer is heard that a later one has overtaken, `shaken` when
somebody came in above a row that is on screen.

**SearchScreen.** An errand is one call of a function of the page, from the press to the last
state it sets; `search` becomes the saving of the search, `openChat` becomes a search. `mixed` is set when
calls that say which search the page is about overlap or fail, `behind` when those that say who is
ruled out do. `Attach` and `HearAttach` are the two halves of `attach()`, which may be anything apart; `replaced` is set when
the text of a file comes into a box that is locked by then, and cleared with the next search that is begun or opened, the next
New search and the deletion of the search on the page. Saved searches are those of one recruiter in one tab. A bound: on a mixed page the
recruiter is followed only to the next New search (`Followed`), before which nothing is promised.

### Refinements

`TriageQueue` implements `TriageBilling` (`ImplementsBilling`): whatever the queue does,
money moves by charging a delivery or giving back. `Codes` implements `OneTimeCode` twice
(`CodesAreOneTime`). `Search` implements `Paging` (`IsPaging`): the line of a search is the
part of `ids` behind the cursor.

## Runs

A property named `...IsSound` or `...AreSound` is the conjunction of a type invariant
and the parts named in brackets; each part is a definition of its own with its comment.

| Run | Instance | Shows |
|---|---|---|
| `calendar` | 3 colleagues, 2 sold seats, 1 carried over; 2 recruiters, 2 reminders, 1 restart, a fortnight is a day | `SeatsAreSound` (`SeatLedgerAgrees`), `PaidMonthIsKept`, `NewestGoFirst`, `ReductionComesDue`; `FreshIsSound` (`HiddenForAReason`, `NobodyWaitsOnANo`, `AskedOnce`), `NotRemindedTwice`, `SilenceEnds` (`SilenceHides`, `ChecksSettle`) |
| `recruiter` | 2 seats, 2 candidates, 2 requests, a welcome of 1 and 2 packs of 1; 2 briefs, 2 saved searches, 2 calls and 1 file at a time | `BalanceIsSound` (`LedgerAgrees`, `WelcomedOnce`), `PaidOnce`, `OpenedIsHeld`, `AllowanceHeld`; `SearchScreenIsSound` (`ResultsAreOfOneSearch`, `RulingsAreOfTheirRole`, `RuledOutStayOut`) |
| `triage_queue` | 3 CVs, one person twice, up to 3 deliveries and capacity for 2 CVs, 1 restart | `QueueIsSound` (`Books`, `PaidWorkIsQueued`, `NobodyIsPassed`, `LadderIsOpen`), `FailedSessionRests`, `ImplementsBilling` |
| `triage_removal` | 3 CVs, one person twice, 2 deliveries, CVs are removed | `NobodyIsHidden`, `RanksAreAhead` |
| `triage_single_pile` | 3 CVs in one pile, batches tried twice, 1 crash anywhere | `PileIsSound` (`ReadCvsArePaidFor`, `FailedOwesNothing`, `ReadCvsAreRanked`, `StatusIsSettled`) |
| `triage_live` | 2 CVs, 2 deliveries, batches tried twice, 1 restart | `QueueGoesOn` (`PaidIsRead`, `ClaimIsReleased`) |
| `accounts` | 2 accounts in 2 browsers, 2 requests; 2 colleagues, 2 links; 2 codes of each kind; 1 session of any generation, 2 deliveries; 2 visitors, 2 searches, 2 eras | `SessionsAreSound` (`OneBrowserEach`, `SignedInIsHinted`, `OthersDoNotSignMeOut`), `PasswordsAreSound` (`LinkWorksOnce`, `NamesTellApart`), `CodesAreSound` (`GuessesAreBounded`), `CodesAreOneTime`, `TriageWalletIsSound` (`PoolIsTheHistory`, `SessionsAddUp`, `ChargedOnce`, `UsageIsTheDraw`, `SharesAreThePool`), `DemoIsSound` (`AllowanceBends`, `NothingDangles`, `ClaimedIsKept`, `OwnersStay`) |
| `workspace` | 2 files, 2 requests; 2 people in pages of 1; 5 candidates before 2 workers; jobs of 3 requirements; 2 CVs read in halves; a team of 2, 2 folders; 2 messages, 2 thread rows | `ProfileIsSound` (`FilesAreThere`, `ScreeningIsUnderWay`, `CorrectionsStay`, `LabelsAreBuilt`, `ErasedUnlessOvertaken`), `OwnWordsStay`, `SearchIsSound` (`CeilingBends`, `CurrentUnlessCrossed`, `JudgementsAreBought`, `ShownMayBeSeen`), `IsPaging`, `JudgingIsSound` (`CallsAreBounded`, `NobodyIsLeftOut`, `AttemptsAreBooked`), `ScoringIsSound` (`StoredIsJudgedAnew`, `SayingLessNeverPays`), `KeywordsAreSound` (`KeywordsAreFair`, `PoolIsFair`), `ShelvesAreSound` (`OneShelfEach`, `ShelvesAreTended`, `RulingsHaveASearch`, `WorkOutlivesItsAuthor`), `ConversationIsSound` (`ClearedUntilNews`, `BadgeIsHonest`, `ClosedRowsRest`) |
| `office` | 3 seats, a welcome of 2 and 2 packs of 1; 3 CVs over 3 days; 3 scores and 2 runs; 4 applicants, 2 wires, opening ranges of 2 and pages of 1; 2 profiles, 2 mailboxes, 2 numbers | `SharesAreTheBalance`, `CreditLowersNobody`, `RetentionIsSound` (`RowsHaveFiles`, `FilesHaveRows`, `SendersAreShown`, `NothingGoesEarly`), `MigrationIsSound` (`JudgementsStand`, `GateIsHonest`, `RevertRestores`, `ErasedLeavesNoScore`), `ScreenIsSound` (`WorkIsWatched`, `RowsAreTheRanking`, `WaitingIsOffered`), `ContactsAreSound` (`PairsAreAccountedFor`, `IndexesStand`, `HoldersAreFound`, `GuardsForesee`) |
| `seats_unpaid`, `saves_scatter` | the instances of `calendar` (`SeatPlan` alone) and `workspace` | the code breaks `SeatsArePaidFor` and `SavedInItsFolder`, see below |
| `old_files` | 2 requests, 3 files | the code breaks `OldFilesOnly`, see below |

`MCCalendar`, `MCRecruiter`, `MCAccounts`, `MCWorkspace` and `MCOffice` take modules that share no state: a behaviour
picks one of them (`part`) and leaves the others where they began, so that the states are
those of the modules one by one.

Why the bounds are enough: seats are interchangeable, and a reduction that takes
two of three accounts is the first that has an order to get wrong; a wallet that
runs empty between two reveals makes every reveal race for a top-up, two requests
and two candidates give all the ways in which two requests meet; three CVs let one
delivery hold two and the other one, let one person send two and somebody else one,
and put two ranks on either side of the cursor; capacity for two of them makes two
deliveries compete at the await. Of the candidate's silence the order of the stages and
lifetimes matters, not their length: a link and a fresh profile last two days, a question
one, and the second reminder is due on the day that hides; two recruiters are enough to
ask twice and to leave one unanswered. `MaxBatches` stops retries, which could go on for
ever. The wallet and triage instances stop when their bounds are used up, and so are
checked without the deadlock check; `calendar` never stops and is checked with it. Symmetry is used only
where no liveness is checked; where several modules share a run, the constants whose members
mean nothing (requests, uploads, colleagues, visitors' calls) are given the same two names.

In the other modules two of everything that competes is enough for each race to happen once
(two requests, two files, two links, two codes, two deliveries, two visitors), and where
an order must be seen a third or more: five candidates for one leading call and two workers
leave two in the queue; four applicants in pages of one, of whom one comes later, give a
page, a page behind it and somebody who comes in between, and with opening ranges of two a delivery that is
analysed at once and one that waits; three requirements give
a job with every tier and one with a tier twice; three days let a session be closed, resumed
and fall due by age; two runs of the migration let one be undone over another.

Some properties are checked on the part of the behaviour where the code keeps them,
and are broken outside it, as the next section says: `PaidWorkIsQueued` without a
crash between a charge and its batch, `NobodyIsPassed` and `LadderIsOpen` without
removals, `FailedOwesNothing`, `ReadCvsAreRanked` and `StatusIsSettled` with one
delivery, `FilesAreThere` while no two edits overlap, `SharesAreTheBalance` and `CreditLowersNobody` while nobody sets shares by
hand or gives seats up, `NobodyIsHidden` when a person spells their address one way.

The exceptions of the new properties are written into them, since the code makes them:
`torn` browsers, work that an erasure overtook, CVs that crossed a judgement, a search row
stored `late`, a message in the millisecond of a clearing, an `inherited` seat, an
`overlapped` migration, a page that was `misled` or `mixed`, a brief that was `replaced`, a contact that is `excused`. Each is an
entry of the next section.

### Disagreements between code and documentation

Three runs violate one property each that states what a comment of the repository says;
`PROJECT.json` quotes the lines.

| Run | What happens |
|---|---|
| `seats_unpaid` | a plan change priced before a due reduction is applied gives seats away: a number above the reduced one and below the old one is an increase that costs nothing (the old number itself is refused, `index.js:3669`) |
| `saves_scatter` | a search is run before its chat exists, and every save from it makes a folder |
| `old_files` | two edits of one profile write the row in one order and the documents in the other; the later to end unlinks the CV the row names (`index.js:2982-2987`) |

The same modules reproduce further disagreements, on other instances or with the
properties above stated for all behaviour; they have no run of their own.
Lines are of `server/src` unless another file is named.

*Money and seats*

- Two accounts can be created for one free seat: the check comes before the await of the
  password hash (`index.js:3491`, `3533`), against "no pending member is created that cannot
  be activated" (`index.js:3488-3489`).
- CVs that were read before their later delivery failed and was refunded
  (`triageQueue.js:308`) are ranked and analysed with the next one, which
  `triageQueue.js:222-225` describes as a failure.
- A reduction deletes accounts in use (`wallet.js:556`), although its header says
  it is clamped to them (`wallet.js:520-522`).
- A reduction of carried-over seats never gets a date (`wallet.js:687`) and is held for
  ever, which `wallet.js:533-536` means to exclude.
- Accounts that go with a reduction take their share of the wallet along: the two routes
  resettle the shares, `applyDueSeatChange` does not (`wallet.js:556`, `1735-1737`).
- A partial map of allowances is checked on its own and may pass the balance
  (`wallet.js:834`); `README.md:151-152` of the repository says it cannot.
- A purchase puts a ceiling on a seat of the shared pool (`wallet.js:1726`), against
  `index.js:3882` and `wallet.js:1713`.
- Reveals are divided by default (`schema.js:1484`); `README.md:150` says they are not.
- A promoted CV that was ranked and passed as a duplicate is never analysed
  (`triageQueue.js:1209`), the failure `triage.js:1001-1003` wants to prevent.
- The heir of a removed CV is found by exact spelling (`triage.js:970`), its duplicates by
  normalised address; a person can disappear (`triage.js:961`).
- CVs read before their later delivery failed stay unranked (`triageQueue.js:308`), although
  "this delivery's CVs must not vanish" (`triageQueue.js:298`).
- A second promotion builds the key of the first (`triageQueue.js:1219`, against `1217-1218`).
- A refused delivery removes its rows without settling the status (`index.js:7439`), the state
  `triageQueue.js:1190-1193` describes as a past mistake.
- A crash between charge and `startProcessing` strands paid CVs (`index.js:7386`, against
  `7409-7410`), one before the charge leaves unpaid rows (`index.js:7354`, against `7407`).
- A completed session is processed again, while `schema.js:816-817` says the status walks
  forward only.
- A link issued by a sweep for a candidate who has said no meanwhile is live
  (`checkins.js:83`), although a no "cancels any outstanding check-in" (`profiles.js:742-744`)
  and such a candidate "is not asked again" (`profiles.js:820`).
- A crash between a reminder and its record sends it twice (`checkins.js:86-89`), although
  restarts "must produce zero extra email" (`checkins.js:28`).
- A hidden profile is "one sign-in away from coming back" (`profiles.js:889`); a sign-in
  does not show it (`profiles.js:801-808`).
- A failed session keeps the money of CVs it never read (`index.js:7368`), against
  `triageQueue.js:340-341`; removing a CV can leave the ladder with no rung that is
  reachable (`triageQueue.js:1336`, against `371-375`).
- A stage of silence may be recorded that the silence has not earned (`checkins.js:89`,
  against `profiles.js:798-799` and `schema.js:1378`).
- A refund of a delivery whose payer is gone lowers the usage of somebody else or of nobody
  (`wallet.js:1314-1322`).
- Unreadable CVs of an older session, adopted while their parse batch (without a delivery)
  is queued, are never returned.
- A process that dies between a settled payment and its credit leaves the buyer with nothing
  (`index.js:3770`), and nothing looks for such payments.

*Accounts and candidates*

- Sign-ins that overlap in one browser leave a cookie without its hint (`auth.js:295-306`).
- A reset link is spent apart from the change it is for (`accounts.js:417`, `431`); a crash
  or a failed hash in between takes the link and keeps the old password. A colleague who
  changes their own password may overwrite the reset an administrator just made
  (`index.js:4267`).
- Two accounts of one name are given one username, the second insertion throws
  (`accounts.js:250`).
- Two edits of one profile that overlap leave, besides what `old_files` shows, a row that names
  one file and documents that name another. A body that cannot
  be parsed ends the edit after the file it replaces is gone (`index.js:2970`).
- A slower extraction of an older CV overwrites a newer one; a crash between the row and its
  version leaves the old extraction current; extraction, labels, vector and summary are
  written after an erasure.
- `labelProfile` leaves a profile without labels while a new version is built, which
  `intelligence.js:156-161` excludes.

*Searches and judgements*

- An analysis of an older CV is filed under the version its person has meanwhile
  (`analysis.js:68-79`); the lookup of the analysed people reads every version, although an
  older one "is never consulted again" (`index.js:2999-3001`).
- Two searches of one job that overlap buy the same judgements twice; explaining a
  candidate ignores that the explanation was not attached.
- Candidates with the score of last resort are answered with score 0, although `analysis.js`
  says they are still ranked and shown.
- A call that is retried is booked once, an answer that was refused or cut off twice is billed
  and booked nowhere (`ai.js:104`).
- A setting of the fraction for silence above 0.6 is accepted, although the order it is to
  keep needs less; `score.js:20-21` describes a pricing of unknowns that `66-83` replaced.

*Folders, messages, demo*

- Moving a candidate, or saving one again, forgets their status in the folder
  (`index.js:8078-8080`, `workspace.js:57-59`). A folder that is renamed no longer has the
  title of its chat.
- A message in the millisecond of a clearing stays hidden; the total of a candidate's unread
  counts conversations that are hidden and ignores marks.
- Whoever registers first claims the session of a demo that several people used. A sweep
  during a search leaves a row that points at nothing, and so does closing the account that
  claimed it.

*Retention, migration, contacts*

- `setLifecycle` has no caller (`index.js:7247`): only older, finished sessions ever read as
  closed. An addition that is refused has already resumed its session (`index.js:7262`).
- Closing again after a pause moves the date that was shown (`triage.js:726-737`); the sweep
  removes CVs without naming heirs or settling the status (`triage.js:993-1004`).
- Times of SQLite and ISO strings are compared as text, by which older sessions fall due up to
  a day early. `triage-retention.mjs` filters after its limit of rows, the defect
  `retention.js:62-66` says was fixed. A crash at an unlink leaves a file in `_swept`.
- A search that stores over a migrated row loses its judgement to a revert, although
  "anything written since" is left alone (`score-migrate.mjs:336`, `341`). Undoing the later of
  two runs that overlapped leaves the gate shut over rows that are back; a run that was
  killed and resumed needs two; after a prune a run is "reverted" with nothing restored.
- The page of a session reads its rows before its transaction and updates them without
  asking for the version (`index.js:8477`); rows of the manifest outlive the CV they
  describe (`profiles.js:1062`).
- The edit of a contact asks its guard before the file is read (`index.js:2914`): without an
  index it forms the pair `db.js:1424` says cannot form, with one the answer is a 500 where
  applying gives a 409. Two processes that start with two lists leave an index that is
  not the list (`db.js:1158-1163`).
- Read but not modelled, at boot: the conversion of old credits comes before the check it
  needs is widened (`db.js:544-566`, `590-620`), guards the update and not the ledger, and
  two processes may record it twice; the conversion of threads takes two statements; names
  that an operator's deletion took come back with every start.

*The browser*

- On a session's page, a CV that ranks above rows on screen is not shown once there is more
  than one page, and the next page repeats a row, although added CVs "will appear in the list
  in their place" (`TriageTab.jsx:1128-1129`). A late answer saying that nothing is being done, a lost
  reply, or a colleague's delivery ends the polling while the server works. A poll never
  shortens the list, and counts what is left as if nothing were on screen. Where an opening range is set to a page
  or less, which `triage.js:45-47` accepts, whatever lies behind it is never offered (`TriageTab.jsx:1267`).
- On the search page, New search or a reopened search while one is under way ends with
  "results under a job description they did not come from" (`SearchHero.jsx:221-230`): the lock on
  the box does not hold the rail. A saved search is open before its results are there
  (`HrPanel.jsx:4997`), and so is the old one while new results are being saved (`4899-4907`):
  whoever is ruled out meanwhile is ruled out of the search whose results are not on screen.
  When saving fails, or a search after Modify, this stays so; Refresh then runs the new text under
  the old search (`4985-4988`), against "a chat and a job description stay one to one"
  (`4855-4859`). A file attached to an empty box is read while a brief is typed and searched, and
  its text then stands over the results (`SearchHero.jsx:144-175`: `attach()` tests the box before the await
  only, and the lock is on the text area), against the same comment. A ruling made during a refresh comes back on screen, although "a re-run must not
  bring back the people already dismissed" (`4884-4885`).

### Fairness

`FairSeatSpec`: time passes, and somebody opens a page that reads the entitlement
(the expiry sweep of `checkins.js` does so every day). `FairSpecKept`: the worker goes
on as long as it has a step (`pump` loops until nothing is queued, `startQueueWaker`
calls it on a timer, calls to the model time out). `FairFreshSpec`: days pass, and the sweep, which the daily
timer starts, goes on (its emails end or time out). `CalendarSpec` states the first and the last of these for the part a behaviour has picked. Nothing is assumed of
recruiters, of payments, of failures or of crashes.

## Proofs

A theorem holds for every value of the constants: any number of accounts, CVs, requests, deliveries or
messages, where a run takes two or three. The proofs use the named assumptions of the model modules
(`SeatAssumption`, `RevealAssumption`, `FreshAssumption`, `WalletAssumption` and so on), which say
that sets of people and requests are finite, that quantities are natural and that nulls are no numbers.
Two theorems have a hypothesis of their own: `PileStaysSound`, see below, and `NobodyStaysHidden`, which
takes the CVs of one person to have the
address spelled the same, since a removal looks for the older version by the address as it is spelled
(`removeApplicant`); the run `triage_removal` has such CVs.

Each theorem goes the same way: an inductive invariant, one lemma per action that it is kept, and the
property from the invariant. What the invariants add to the properties, and why, is what the next
paragraphs are about.

**SeatPlanProofs.** `SeatInv` is the type invariant with `SeatLedgerAgrees`, and is
inductive as it stands. Two lemmas carry the steps: `ApplyDueKeeps` for the readers,
with any list of accounts, and `SetSeatPlanKeeps` for a change of plan on whatever row
it runs on. Both also bound how far the seats may fall, which gives `SeatsFallWhenDue`. `NewestLeaveFirst` adds
`SeatedOnce`: nobody holds two seats, and nobody joins who is there already. Whoever stays after a
reduction is then a beginning of the list, so that only the one deleted by name can go out of turn.

**RevealWalletProofs.** `WalletInv` strengthens the checked properties by what they
need to be inductive: a seat without a row or an allowance has drawn nothing against one, a candidate who
is not held was not charged for while alive, and a balance that is the sum of its
history and never negative. It is split into shares, money and the rest, so that each
action is proved against the part it touches. `AllowanceHeld` for a request that read
its allowance before a payment rests on `consumeReveal` reading the seat's row again
(`ChargeKeeps`). `CreditsOnlyRaise` is proved for `SpecDefault` with
`DefaultInv`: while the split is left alone every seat has an allowance. For the same specification
`SharesStayTheBalance` shows that what the seats may still draw adds up to the balance: `DividedInv`
adds that nobody waiting for a top-up read a blank allowance, so that whatever a step divides goes to
seats that count, and the remainder of a division goes to the administrator.

**FreshnessProofs.** `FreshInv` adds three facts to the checked invariants: there are
finitely many links, so that a new one can be told apart (`IssueLink`); a stage the sweep is
about to send is above the one on record (`SweepAhead`), which survives activity during the
await because activity only lowers the record; and the record is never below what this
silence was told (`ToldIsRecorded`). The last two give `RemindersAreSentOnce`. There is one
lemma per handler, and `ActiveKeeps` for what sign-in, a yes and a reactivation share.

**DataLemmas.** The sums and folds of the community modules are given by recursion over sets. They
are reasoned about by the equations they satisfy (`TotalOver`, with `MapThenSumIsTotal` and `FoldIsTotal`
for the library's operators): how a total changes with one term (`TotalOfOneChange`), is monotone,
bounded, divided and split. Induction over finite sets is stated with an explicit set of good
values, so that it can be cited; minima and maxima come from it too.

**AccountsProofs.** The six modules share no variable; each has an invariant of its own.
`SessionInv`: a session id was handed out before anybody holds it, and by one browser, which gives
`OneBrowserEach` although accounts are shared. `CodesInv`: of each kind at most one code is live, and those
that were redeemed are not; with it every step of sign-in and of sign-up is a step of `OneTimeCode`
or none (`CodesImplementOneTime`). `PasswordInv`: whoever redeems a link holds one that is used, and no
two the same; a name that is derived is nobody's, for there are more numbers than accounts.
`DemoInv`: runs on record and in flight together exceed the allowance by no more than there
are calls, for nobody is admitted past it and each call in flight comes to one run.
`CapacityInv` is the largest. It says of each session that its row, its loose CVs, its
deliveries and its history agree (`SessionsAreSettled`), of each seat that what it has drawn covers what is
outstanding of it summed over all sessions (`DrawsCover`), and of the pool that it is what was bought less
what is charged and not refunded (`MoneyIsRight`). Only the sum over sessions is inductive: a refund
takes its amount off the usage of its payer and stops at zero (`Returned`), and that it never does stop
there follows from what is outstanding of the payer in all other sessions being drawn as well. Removing a payer moves the charges that bear their name
to the administrator (`PayerIsRemoved`), and the older generations of charges are set up as
deliveries before anything is added (`OlderSessionIsSettled`, `SettingUpIsSound`).
`ContactsInv`
(`ContactsAreSound`): the form that passed its guard, the index and the list in the memory of each process
say enough of one another that no write makes a pair unaccounted for.

**TriageQueueProofs.** `SessionInv` is the types, the money and `OneAtATime` with `PilesInv`: deliveries
that were charged have rows. It suffices for `RanksGrow` and `FailureIsFinal`, and for
`BillingIsKept`: every step, crashes included, is a step of `TriageBilling` or none. `QueueIsSound` needs
more, proved in layers that cite one another: rows (`RowsInv`), batches that read only paid
deliveries and paid rows that some batch reads (`ReadingInv`), rungs of the ladder that are all taken
and ranges within them (`RungsInv`), and, unless the session failed, that whatever lies behind the frontier is
settled or covered by an open range (`LadderInv`, `RangeInv`, `PassedInv`). The last three hold together
only: a claimed range ends by moving the frontier to its end, which is right only if every open range
before it covers what it leaves behind. `NobodyStaysHidden` holds for removals too, with
`WaitingInv`: what a running parse has left is unread and of its delivery.

`PileStaysSound` is about one delivery (`MaxDrops = 1`). A later one can be charged in a session that has failed,
and one that fails leaves CVs that were read and never ranked; both are in the code, and
`PileIsSound` is broken there. `PileInv` follows the batches of the pile by stage: the first reads, the second
ranks, later ones analyse (`StagesInv`); what a row can look like at each stage (`StageRowsInv`); what has gone
back so far, and that it is what the rows say once reading is over (`OwingInv`); and that the status is
settled or a batch still owes it an end (`RestingInv`). The last is what a crash could break, between the end
of a batch and the status after it.

**WorkspaceProofs.** `ShelfInv`: a folder, a search and a ruling refer to rows that are there and belong to
somebody on the team. `TalkInv`: messages in the order of the clock, with what was cleared and what was
opened as a cut through it. `SearchInv`: requests, lines and the ceiling, and that what a page
shows was judged and bought; `SearchImplementsPaging` refines `Paging`, for a line of people closes up when one is
erased but never reorders. `JudgingInv`: each candidate is charged as its stage says, by a case
for each stage. `ProfileInv` follows what is read out of a CV (versions, labels, corrections, the screened
summary) through erasure and restarts; from it `OwnWordsAreKept`, an action property.
`ScoringInv` says of a stored row that it retells the answer it was made from, with the
weights of its day or without any, that its fit is the price of what it tells and its nudge the one of the place. That
saying less never pays is then a fact about two sums with one term changed (`TotalOver`) and about quotients, which are
bounded from both sides and never computed. It holds for settings of silence below the worth of a partial answer, the
documented range; that coverage is never 0 needs few requirements (`FewRequirements`), since the code does not
bound how many a job has. `KeywordsStaySound` is about the score without a model, a sum over the components that
apply: each is rounded to a tenth by itself, so that full marks add up to 100 only within two tenths, which
still round to 100, and leaving out one for which nothing was found only gives its weight to the others.

**OfficeProofs.** `KeepingInv` (`RetentionIsSound`): uploads in turn, the newest CV is the one shown, and
the clocks from which a CV falls due never run ahead of what the sweep reads.
`MigrationInv` (`MigrationIsSound`) is graded like the property: what ties rows, pages of the manifest and notes of
processes together holds always (`TablesFit`). While no two processes have overlapped (`AloneInv`), what a process
holds of a row is what is there, unless the server stored over it or erased it; what a standing run noted
is there; a row is moved once, and before it is refreshed; and a run over everything leaves nothing behind it,
so that whatever is forced afterwards moves nothing but a candidate who goes. While besides nothing was pruned
from the manifest (`ValuesAreTraced`), a value is one the server gave or a standing run has a note of its row,
and the value in a note is one the server gave or an earlier run has one too: undoing all of them comes back to the server's.

`ScreenInv` (`ScreenIsSound`) has the server's part in `ServerInv`: the range of a queued batch begins at the frontier's next
rank at most and ends within the ladder; whoever has a rank the frontier has passed is scored; whoever has none will get one;
and the ladder ends at the frontier, or an opening range of it is scored or will be. Hence while CVs wait and
nothing is queued an opening range is on the list, which the page offers to go on from if it is more than a page.
An answer tells of the list when it had a certain length. The list only grows, so that
two answers of one length tell of one list; hence a page with the signature of the last one is the same page, and a
refresh that is skipped would have changed nothing. A Show more under way goes on where the rows end
(`MoreJoins`), and the slices of the ranking are known by their lengths and by how they
join, never by who is on them. `SearchPageInv` (`SearchScreenIsSound`): of the calls that move the page there is one,
unless it is mixed; of all calls one, unless it is behind, but for a ruling beside a deletion
(`FewAtATime`). Between a search, its saving or an answered deletion and the end of it the page is about two searches
(`Interim`); once `Settled` it is about one, and knows who is ruled out of it. Calls that
cross or fail break these facts in the code, which is what `mixed` and `behind` record.

What is only model-checked, and why: liveness under fairness (`QueueGoesOn`, `SilenceEnds`,
`ReductionComesDue`), which is outside TLAPS. `PileIsSound` is proved for one pile, which is where the run
checks it and where the code keeps it. Every other property of a passing run is stated by a
theorem; the bounds of the instances are constants there, of any value.

`SeatsStaySound`, `BalanceStaysSound`, `FreshStaysSound` and the other theorems named for a whole module
prove the composites the runs check.

## Plan

Every module that was planned is written, and of every module the invariants and action properties
that are checked are proved. What could still be added, in the order of what a mistake would cost: in
`TriageQueue`, what of `PileIsSound` survives a second delivery (a CV that was read is paid for
and ranked unless its delivery failed); a sharper coverage in `Scoring`, should the number of requirements of a job
ever be bounded in the code; and the paths through the client that are listed below.

## Not modelled

The map covers about a sixth of the implementation's lines. Most of the rest has
no state of its own that two actors could disagree about:

- **The client's forms and pages** (`CandidatePortal.jsx`, the other tabs of `HrPanel.jsx`, the landing
  page and its demo, about half of all lines): markup, wording and input fields around the routes that
  are modelled. The page of a session and the search page are modelled because they go on while the server works.
- **Legal texts** and the pages that show them: constants.
- **Prompts and answers of the model** (`ai.js` but its batches): what is asked and how an answer is
  checked. Verdicts are values of small sets.
- **Text**: extraction from PDF and Word, tokenizing, retrieval and embeddings, export. Pure
  functions of data the properties do not tell apart.
- **Notifications and e-mail**: sent and forgotten; where an await for one matters it is an await in the
  model.
- **The rate limiter** of `security.js`: counters in memory, per address.
- **The conversions of `db.js`** but the indexes of contacts: they run once on databases of builds that are
  not in the repository. Their hazards are listed above.
- **Scripts** that list, back up or audit; settings and reviews of a company, outreach,
  tags and comments; routes that only read.
