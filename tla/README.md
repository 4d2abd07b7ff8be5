# relayjoin in TLA+

relayjoin pays a bitcoin invoice by payjoin over nostr relays. `pjn-sender` (the
payer) sends a signed Original PSBT to a receiver's one-time key, `pjn-receiver`
adds a coin of its own and replies, the payer checks the proposal, signs and
broadcasts it; if anything goes wrong the Original PSBT is still a valid payment.
Both programs keep a session file, so either may be closed, killed and run again.
`pjn-theater` plays both sides in one server for a page that watches.

The models follow the code under `src/`; paths and line numbers below are
relative to the crate named. `main.rs` alone is ambiguous: *sender*, *receiver* and
*theater* name the three programs.

## 1. Inventory

| component | code | state it keeps | operations | what makes it correct |
|---|---|---|---|---|
| payer | `pjn-sender/src/main.rs`, `pjn-wallet/src/sender.rs` | session file (key, PSBT, reserved coins, `published_at`); in memory the loaded session | run with or without a URI, `--dry-run`, `--fallback-on-failure`, `--abandon`; publish, wait, validate, broadcast, clear | a URI is never paid twice; the user is told the truth; the key of an open request is kept; a payment is never blocked |
| receiver | `pjn-receiver/src/main.rs`, `pjn-wallet/src/receiver.rs` | session file (key, seen coins, `created_at`); in memory session, wallet snapshot, delivered set | `serve` (`--keep-alive`), `reset`, `keygen`, `status` | a payer coin is answered with one coin of the receiver at most once; seen coins survive restarts; requests are answered; spent keys leave the disk |
| session files | `pjn-wallet/src/session.rs` | one JSON file each, written to a temporary file and renamed | load, save, clear | a save is all or nothing |
| transport | `pjn-transport/src/lib.rs` | relay connection, `delivered` set, lookback anchor | `connect`, `send`, `recv`, `mark_delivered` | a wrap meant for a key is in the window and handed over once per transport |
| wallet | `pjn-wallet/src/signet.rs` | descriptor wallet, as of its last sync | `sync`, `is_unspent`, `broadcast`, sign | an old snapshot does no harm |
| payjoin URI | `pjn-wallet/src/uri.rs` | none | build, parse | round trip |
| theater | `pjn-theater/src/main.rs` | `Inner` (invoice, online, busy, paid), `bob_stop`, two wallets, `handled`, history, broadcast channel | the request handlers, Bob's task, Alice's task, `watch_confirmation`, `stream_events` | one Bob listens, for the current invoice; an invoice is paid once; a payment ends; a page sees each event once; nobody waits in a circle |
| page and replay player | `pjn-theater/static/index.html` | stage, step list; position in a timeline | `handle`, `connect`; `seek`, `jump`, `play` | it shows what happened |
| `pjn-replay` | `pjn-theater/src/bin/pjn-replay.rs` | none | trims a recording and bundles it | - |

How they interact: payer and receiver share nothing but the relays and the chain.
A wrap may be stored without acknowledgement, handed over late, twice or never, in
any order. A session file is shared by successive runs of a program and, because
nothing locks it, possibly by runs at the same time. In the theater Alice, Bob, the
watcher, the handlers and the pages are tasks of one process that share `Inner`,
the two wallets, a `seen` list and the history under locks, a oneshot channel that
stops Bob, and a broadcast channel with room for 1,024 messages.

What is hard here: a kill between any two of load, sync, save, send, save,
broadcast and delete; the unacknowledged send and broadcast; the replay guard
against a relay that hands a request over again; windows over back-dated timestamps
and skewed clocks; a Bob who is told to stop while a note arrives; two tasks that
each publish in two steps what the other may change in between; a wrap that is
stored while a `recv` call is between its fetch and its subscription; a replay in
which several animation callbacks advance one position.

## 2. Modules

    Relays   Chain                       shared environment
       \     /    \
    Sender  Receiver  \      Ledger      Payjoin implements Ledger
       \     /         \       :
       Payjoin .........\......:         MCPayjoin, PayjoinProofs
                       Theater           MCTheater
                                         TheaterProofs
    Recv                 Mailbox         Recv implements Mailbox: MCRecv, RecvProofs
    ListenWindow                         ListenWindowProofs
    TheaterFeed                          MCTheaterFeed, TheaterFeedProofs
    TheaterLocks                         MCTheaterLocks, TheaterLocksProofs
    Replay                               MCReplay, ReplayProofs

    PayjoinProofs <- PayjoinSafety

**Relays** (`pjn-transport`). `wraps` is every gift wrap a relay has stored. `Send`
stores one, `SendFails` may store one and report failure. A second send of one
envelope is another wrap (`copy`, at most `MaxCopies` are told apart) or looks like
the one that is there. `Undelivered` is what `recv` may return, less the transport's
delivered set. Relays never promise delivery: each `recv` may also return nothing.

**Chain** (esplora, external). A transaction is accepted while none of its coins is
spent; `BroadcastFails` may have been accepted all the same.

**Sender**. Each element of `Procs` is a terminal that runs the program again and
again on the session file `FileOf[p]` with the wallet `CoinsOf[p]`. `proc[p].at` is
the place in a run:

| place | code (sender `main.rs`) | steps out |
|---|---|---|
| `down` | between runs | `Invoke` (108-132), `Abandon` (120-126) |
| `synced` | file loaded, wallet synced | `Resume`, `ResumeSettled` (225-276), `Start` (166-223), `Refuse` (135-154), `CannotBegin` |
| `ready` | `run`, not yet published | `Publish`, `PublishFails` (278-308) |
| `sent` | sent, not yet recorded | `RecordPublished` (310-327) |
| `waiting` | `await_proposal` | `HearProposal`, `HearError`, `HearNothing` |
| `proposal` | proposal in hand | `RejectProposal`, `Settle`, `SettleFails`, `EndDryRun` |
| `stopped` | `finish_with_fallback` | `KeepOpen`, `Settle`, `SettleFails`, `EndDryRun` |
| `done` | `Ending::Clear` | `Clear` (156-160) |

`Crash` leaves any place. `payments`, `told` and `closed` are history: what was ever
begun, what users were told, which payments lost their file.

**Receiver**. `Serve` (198-255), then `Collect` with `respond` (323-350), `Answer` or
`AnswerFails` (352-371), `Persist` (263-267), `Finish` (269-295); `HearNothingR` and
`ListenFails` end a wait; `Reset` (103-107) is another process; `CrashR` kills at the
phases in `KillableAt`. `Judged` is `respond` seen from outside: the replay check
records the payer's coin also when it or a later check refuses. `issued` and
`spentKeys` are history.

**Payjoin** composes the two and states the properties. **Ledger** is the abstract
specification: a session file holds one payment at a time, a payment is paid only
while it is in its file and at most once, and a deleted file closes its payment.
`Payjoin!LedgerSpec` maps the pid in a file to `open`, the file a payment was begun
in to `owner`, and the accepted transactions to `paid`.

**Recv** opens up what `Relays` takes as one step, the wait for a wrap: `recv_detailed`
(`pjn-transport/src/lib.rs` 339-464) fetches the backlog (`Fetch`), reads it
(`HandStored`, `SkipStored`), takes the notification stream (`OpenStream`, 401),
subscribes (`Subscribe`, `SubscribeFails`, 403-411) and waits (`HandNotice`,
`SkipNotice`, `TimeOut`), while relays store wraps, serve or refuse the subscription,
drop the connection and are dialled again, and the party may leave at any place
(`Leave`: `shutdown`, a call that `select!` drops, the end of the process) and come
back with a transport for any part of a relay list (`Connect`). **Mailbox** is what
callers are promised: of the stored wraps those that can be opened, each once per
transport. `Recv!MailboxSpec` maps `there` to what any relay has and `got` to the last
result. Seven days of expiry, the proof of an envelope and the window are left out; a
fetch takes place at one moment, and answers that come after its timeout are dropped;
the client library is taken at its weakest: it need not notify again of a wrap it was
already sent (`old`), and it forgets a subscription that no relay served when its call
ended.

**Replay** is the replay of a recorded payment. `TrimToStoryEnd` and `Bundle` are
`pjn-replay` (what it cuts and what it refuses), `Events` the loop that reads the
recording, `Pages` what it makes of all recordings; `Timeline`, `applyUpTo`, `seek`,
`frame`, `play`, `pause` and `jump` are the page's player
(`index.html` 828-1005). The browser draws (`BeginFrame`) and then calls every callback
that was scheduled (`frame`, `FrameStops`); the viewer acts between two drawings. An
event is a time and a kind; `After` is the loop of `applyUpTo` over `handle`, from any
stage; `limit` is history. Times are multiples of the 250 ms a
frame may advance, divided by `FrameCap`.

**ListenWindow** is the arithmetic of `backlog_since` in time: clocks, random
back-dating, and the anchors (`created_at`, `published_at`) as they are taken, saved
and read back by runs that die.

**Theater** is the story of the page: every handler is one action because it holds
`inner`, but for `pay`, which frees `inner` and waits for it again before it starts
Alice's task (631-635): it goes on (`pay_starts`) or its browser leaves and it is
dropped there (`pay_dropped`). Bob is a set of tasks, each with its own stop flag and
its own copy of `handled`; Alice is one task; `steps` is the page's step list. `Stopped`
and `StartBob` are the two halves of every change of Bob. `late` is history: the notes
that a task took after it was told to stop, which the `select!` of `bob_listen` allows.

**TheaterFeed** opens up what `Theater` takes as one step: an event is stored and
sent under the history lock (`emit`), while a handler changes `Inner`, empties the
history, announces the reset, takes a snapshot and publishes it in separate steps, or
is dropped where it waits for the snapshot (`Dropped`), and a page takes its snapshot
before it subscribes. `amid` (the events between the two steps of a `clear_history`) and
a page's `behind` (it lost a message of this connection) are history.

**TheaterLocks** is the order in which each task takes and frees locks, as a script
per task, with the calls that wait for the chain server.

### Abstractions worth knowing

* A payment's nostr key stands for its session id; a URI is its key; a payment
  reserves one coin; amounts, fees, PSBT fields and signatures are not modelled.
* `Invoke` loads the file and syncs the wallet in one step. Both are reads, and the
  steps of one terminal that could come between them are its own. For two terminals
  on one file the race of section 5 is there without splitting it.
* A failed read or write of a file ends the run with `Err`: that is a killed run.
  So is an error of `finalize`, and a panic in the task that checks a proposal.
* A file is written in one step (temporary file and rename).
* `respond` and `validate_proposal` are choices of outcome (`Verdicts`), except for
  the replay guard.
* The receiver's wallet is synced once per run, so `view` is as old as the run.
* Users are sensible in one respect: nobody pays a URI again who was told that it is
  settled (`Invoke`).
* The receiver's recorder lock, the recording file and the wording of pages are left out.

## 3. Runs

Passing runs:

| run | properties | bounds, and why they suffice |
|---|---|---|
| `payer` | `IInv`, `NoDoublePayment`, `ToldIsPaid`, `SpentSecretGone`, `LedgerSpec` | One terminal, two coins, two payments, two URIs: a second payment of the same URI with another coin is possible, and so is the next session of the receiver. Every flag, every kill, every lost acknowledgement, `reset`. One receiver coin; `--keep-alive` off (see section 5). No `--abandon`: whoever abandons a payment may pay again on purpose. |
| `replies` | `AnsweredIsRemembered`, `OneProposalPerCoin`, `ReplyKeyKept`, `PublishedIsStored`, `RecordedNeverResent`, `SeenOnlyGrows` | Two payments of one coin (with `--abandon` between them), two receiver coins so that two different proposals can exist, two copies of every wrap, `--keep-alive`, all three verdicts. The receiver is killed anywhere but between a reply and the save (`NotUnsaved`): section 5 shows that case. |
| `live` | `InsistentIsPaid`, `ServedIsAnswered` | One payment, two copies of every wrap, everything may fail or be killed; a payer who always runs with `--fallback-on-failure` and a receiver that is run again whenever it stops. Each property assumes the fairness of its own side only (`Insistence => EventuallyPaid`, `ReceiverServes => RequestAnswered`). |
| `recv` | `IInv`, `NoGap`, `MailboxSpec`, `HandedOver`, `FoundInTheEnd` | Two relays, of which any may answer, serve, refuse and drop, one wrap that can be opened and one that cannot: each may be on one relay, on both, fetched, notified, skipped. With a second wrap that can be opened the safety properties pass as well (734,951 states). |
| `window` | `IInv`, `RequestInWindow`, `ReplyInWindow` | Back-dating 2 and slack 1 in place of 48 and 1, five hours: longer than a whole window, so that old wraps do leave it. |
| `stage` | `IInv` (with `PaidIsOnChain`), `OneListener`, `AnsweredOnce`, `InvoicePaidOnce`, `PaysCurrentInvoice` | Two invoices, two payments, two coins on each side, two Bob tasks alive at once (the one that stops and its successor, who may take the same note), a Bob who may fail to connect. States that differ only in the step list, which no guard reads, are taken as one (`VIEW`); `page` in section 5 looks at the steps. 456,175 states. |
| `ends` | `OneProposalPerCoin`, `PaymentEnds`, `NoteCollected` | One payment, two Bob tasks and two coins of Bob; Bob connects, and may take a note after he was told to stop, together with his successor: the shared `seen` list still lets only one of them answer with a coin. `PaymentEnds` speaks of a payment whose task was started; `deaf` in section 5 is about one that was not. |
| `feed` | `IInv`, `ShownOnce`, `LostOnlyAmidClears` | Two pages and room for two messages, so that pages fall behind at different times; two handlers and two changes of the state, so that one may clear the stage while the other does; any handler may be dropped; two events. |
| `replay` | `NotTooFast`, `ShowsThatMoment`, `EndIsTheEnd`, `EndsWithBalances`, `NoLeap`, `PlayEnds` | A whole payment with a wait longer than `MaxGap` and clicks after its end, a story that was begun anew and not finished, and two recordings with a key in them (one is refused, of the other the key is cut off). Three speeds; three callbacks scheduled at once, so that `jump` can overtake a drawing; a tab hidden for twice the cap. |
| `locks` | `NoCycle`, `AllFinish` | One task for every script that waits with a lock in hand, a page and a watcher. A `handler` holds one lock at a time and asks for none meanwhile, so it can be in no circle. |

`payer`, `replies`, `stage` and `feed` use symmetry over values that are alike; runs
with liveness properties use none.

Violation runs, each for a claim that the code does not keep:

* `samecoin` (`EventuallyPaid`): a receiver with `--keep-alive` synced its wallet once
  and offers its one coin to two payers. The second payer holds a valid proposal that
  can never be broadcast: `wallet.broadcast(..)?` (sender 373) ends the run, the saved
  session is resumed, the same proposal is read back, and `--fallback-on-failure` is
  never reached, although "it must never be able to block one" (sender 12-14).
* `stale` (`PageShowsState`): `stream_events` takes its snapshot before it subscribes
  (theater 480-486) and state messages are not in the history, so a change in between
  never reaches the page; two handlers may also publish their snapshots in the wrong
  order. "A page opened mid-run catches up from the server" (`demo/THEATER.md`:152).

### Fairness

A user, a network and a scheduler are behind these, so each is stated on its own:

* `Persistent(p)`: the user runs the program again (`WF` of `Invoke`), a run takes its
  steps (`WF` of `Work`), and runs are not always killed or failed at the same place
  (`SF` of single steps). Without it a payer may simply stop trying.
* `ChainReachable(p)` and `RelaysReachable(p)`: a broadcast, a connection and a publish
  that are tried again and again succeed at some time. `RelaylessSpec` drops the
  second.
* `ReceiverServes`: the owner starts `serve` again, and what it does again and again
  is not always killed. `RequestAnswered` assumes nothing of the payer.
* `Recv!Fair`: the party makes its calls and a call that waits ends (`WF`); again and
  again a connected relay answers a fetch within its timeout, is connected between two
  calls, and is reached by a run that has it in its list (`SF`, per relay); what was
  fetched is not always lost to the end of the process (`SF` of `HandStored`).
  Subscriptions may be refused for good. `FoundInTheEnd` adds that the party goes on
  starting over: a process that lives and is never told to end need not find what is on
  a relay it could not reach when it began.
* `Replay!Watched`: the browser draws and calls what was scheduled. `PlayEnds` speaks of
  a viewer who at some time stops clicking.
* `AliceRuns`, `BobRuns`: tokio runs its tasks; a handler of `pay` goes on or is
  dropped; `ALICE_PATIENCE` ends Alice's wait; a
  Bob who goes on listening is handed what is there (`SF` of `BobHears`), and one
  whose connection can succeed connects.
* `TheaterLocks!Spec`: each task at work takes its next step when it can (`WF`), and the
  chain server answers or the call fails. No lock is taken to be fair: `inner` is a
  tokio mutex, the wallets, the seen list and the history are `std::sync::Mutex`es,
  which promise no order. A task may then wait as long as others keep coming, and
  `AllFinish` says only that, once no task begins anew, all get through.

### Mutants

Each property of a passing run comes with a mutated definition, kept beside the
definition it changes and named in `PROJECT.json`, that breaks it the way a plausible
mistake in the code would: a payment that is not saved before it is sent
(`StartUnsaved`), a failed broadcast that clears the session (`SettleFailsCleared`),
seen coins that are only saved on success (`PersistSuccess`) or not loaded again
(`ServeForgetful`), a window that is anchored anew by each run (`ReopenNow`), a margin
without the clock skew (`BackdateOnly`), a reset that does not wait for a payment
(`reset_midway`) or leaves Bob at work (`reset_besides`), a subscription after the copy
of the history (`SubscribeLate`), a payment that leaves through an early return (`AliceVanishes`), two
wallets locked in the other order (`refresh_together`), a notification stream that is
taken after the subscription (`OpenStreamLate`), a replay that does not empty the stage
when it seeks (`seekKeeps`).

## 4. Theorems

Proved with TLAPS for every value of the constants that satisfies the named
assumptions of the modules.

| theorem | states | assumes |
|---|---|---|
| `PayjoinProofs!TypeCorrect` | `[]TypeOK` | - |
| `PayjoinSafety!BooksAgree` | `[]IInv` of `Payjoin` | `Exclusive` |
| `PayjoinSafety!PaysOnce` | `[]NoDoublePayment` | `Exclusive`, no `--abandon` |
| `PayjoinSafety!TellsTheTruth` | `[]ToldIsPaid` | `Exclusive` |
| `PayjoinSafety!ImplementsLedger` | `LedgerSpec` | `Exclusive` |
| `PayjoinSafety!KeepsTheKey` | `[]ReplyKeyKept` | `Exclusive` |
| `PayjoinSafety!WaitsForStored` | `[]PublishedIsStored` | `Exclusive` |
| `PayjoinSafety!NeverResends` | `RecordedNeverResent` | `Exclusive` |
| `PayjoinProofs!AnswersOnce` | `[]OneProposalPerCoin` | receiver not killed between reply and save |
| `PayjoinProofs!RemembersAnswers` | `[]AnsweredIsRemembered` | receiver not killed between reply and save |
| `PayjoinProofs!NeverForgets` | `SeenOnlyGrows` | - |
| `PayjoinProofs!ForgetsSpentKey` | `[]SpentSecretGone` | no `--keep-alive` |
| `RecvProofs!RecvInvariant` | `[]IInv` of `Recv` | - |
| `RecvProofs!NothingInTheGap` | `[]NoGap` | - |
| `RecvProofs!ImplementsMailbox` | `MailboxSpec` | - |
| `TheaterProofs!StageInvariant` | `[]IInv` of `Theater` | - |
| `TheaterProofs!OneBobListens` | `[]OneListener` | - |
| `TheaterProofs!BobOffersOnce` | `[]OneProposalPerCoin` of `Theater` | - |
| `TheaterProofs!BobAnswersOnce` | `[]AnsweredOnce` | - |
| `TheaterProofs!PaysWhatIsAsked` | `PaysCurrentInvoice` | - |
| `TheaterProofs!PaidMeansPaid` | `[]PaidIsOnChain` | - |
| `TheaterProofs!PaidOnce` | `[]InvoicePaidOnce` | no accepted broadcast reports failure |
| `ListenWindowProofs!WindowInvariant` | `[]IInv` of `ListenWindow` | - |
| `ListenWindowProofs!RequestsAreFound` | `[]RequestInWindow` | - |
| `ListenWindowProofs!RepliesAreFound` | `[]ReplyInWindow` | no sender dies between `send` and `save` |
| `TheaterLocksProofs!NobodyWaitsInCircle` | `[]NoCycle` | - |
| `TheaterLocksProofs!NeverStuck` | at all times some task's next step is possible | there is a task |
| `TheaterFeedProofs!FeedInvariant` | `[]IInv` of `TheaterFeed` | - |
| `TheaterFeedProofs!EventsShownOnce` | `[]ShownOnce` | - |
| `TheaterFeedProofs!EventsKept` | `[]LostOnlyAmidClears` | - |
| `ReplayProofs!PlayerInvariant` | `[]IInv` of `ReplayProofs` | - |
| `ReplayProofs!NeverTooFast` | `[]NotTooFast` | - |
| `ReplayProofs!ShowsTheRecording` | `[]ShowsThatMoment` | - |
| `ReplayProofs!NeverLeaps` | `NoLeap` | - |
| `ReplayProofs!RestsAtTheEnd` | `[]EndIsTheEnd` | every page in the order of its times, and not all of one moment |
| `ReplayProofs!EndsSettled` | `[]EndsWithBalances` | the same; in every recording the end of the confirm step is followed at once by the balances |

`Exclusive` says that each terminal has a session file and a wallet of its own. The
programs do not check it, and section 5 shows what happens without it.

*Types.* `TypeOK` alone is not inductive: a run that resumes uses `payments[pid]`, so
the payment must have been begun. `PayerLinked` and `ReceiverLinked` say so.

*Paying once and telling the truth.* The chain accepts the first spend of a coin, so
two transactions of one payment cannot both be there; what has to be shown is that no
second payment of the URI is begun. The invariant ties four places together:
`CoinsKept` (a payment's coin is of its payer's wallet), `ChainRight` (a transaction
spends its payment's coin and otherwise only a receiver's), `OpenPayment` (the payment
in a file was begun there, its user was not told that the URI is settled, and nobody
else spends its coin), `PaidKnown` (what was paid is still in its file or was told),
and for each run `RunFits`: its memory agrees with its file, and the coin it works
with is unspent until it settles. `Resume` needs this: the coin is in the wallet
snapshot of a run that no other run can have made stale. `PaidKnown` gives
`NoDoublePayment` when a new payment starts: the file is empty and the URI was not
told, so the URI was never paid from this file. `MoveStep`, `ExitStep`, `DeleteStep`,
`BroadcastStep`, `StartStep` and `RecordStep` treat one kind of step each;
`PayerSafe` names the action that takes it.

*The ledger.* With the same invariant, initial states map to initial states and every
step maps to one of the ledger's or to a stutter: `Start` to `Begin`, an accepted
broadcast to `Pay`, a deleted session file to `Forget`. `Pay` needs that the payment is
still in its file and was not paid, which is `RunFits` with `ChainRight`.

*Requests.* `RInv` adds what a run remembers of its file: `PaymentKept` (a payment is in
the file it was begun in until that file is deleted), `RequestsBegun`, and `SendFits`
(a run in `ready` has an unpublished file, a run in `sent` has stored its request).
`RecordPublished` then writes "published" only of a stored request, and `Publish` finds
no file that says so.

*The replay guard.* `GInv` needs nothing of the payers but that a payment's coin never
changes (`WrapsRight`), so these theorems hold without `Exclusive`. `SessionKnown` says
that the file is the running process's or gone and lags behind its memory, `Remembered`
that answered coins are in memory and, but for the moment between reply and save, on
disk, `AnswerFresh` that a proposal about to be sent is the first for its coin. A
`reset` under a running receiver is covered: `Persist` writes the file back.

*The window.* A request is stamped at most `Backdate` before the sender's clock, which
is at most `Slack` behind the receiver's, which is not before `created`. A reply is
made after some request was stored, hence after the anchor taken before it was sent
and saved after (`RepliesAfterAnchor`); this is where a sender that dies between
send and save breaks the argument.

*The spent key.* `KeysRight`: a key in memory or on disk was printed and is not that of a
completed payjoin. A run without `--keep-alive` ends with the payjoin it completes, so no
later save writes the key again, and a new session takes a key that was never printed.

*The mailbox.* `Reached` is the heart: whatever a relay that holds the subscription has
stored was handed over, is among the fetched wraps still to be read, is in the stream, or
was sent to the client when nobody read (`old`), and then the next call's fetch finds it.
`OpenStream` before `Subscribe` is what makes it inductive. Every wrap that is handed over
is stored (`Known`), can be opened and was not claimed, which is the mailbox's `HandOver`;
a wrap that is stored is its `Arrive`, another transport its `Reconnect`, and the rest
moves on or is invisible.

*The theater.* `IInv` ties the tasks to the server's state. `OneListener` needs that every
handler that replaces the invoice also stops the old task. `AliceRight` says that a payment
in progress is about the current, unpaid invoice, which holds because each handler that
could replace it checks `busy`; `PaysCurrentInvoice` follows. `NotesRight` and `GuardRight`
say that a coin with a proposal, sent or about to be sent, is in the invoice's `seen` set
and that no second proposal for it is under way: `BobJudges` then makes the first.
`ChainKnown` says that a paid invoice is called paid or Alice is about to say so, unless a
broadcast may be accepted and reported as failed. `TakenRight` is the extra invariant of
`BobAnswersOnce`: a task that may take notes knows all that were taken, but for those that
a task took after it was told to stop.

*The locks.* `IInv`, proved as a lemma, says that the holders of a lock are the tasks that took it and did
not free it, as far as their scripts have got; one free lock has one taker. The scripts
are then a matter of data: each is put together from pieces that are `Closed`, which take
their locks in the order `inner`, `alice`, `bob`, `seen`, `history` and free what they took.
In a group of tasks look at those that wait for a lock: the one that waits for the highest
lock is kept from it by a task that holds it, and that task, if it waited, would wait for a
higher one still. `NeverStuck` is the same argument for all tasks.

*The feed.* What counts is the order of `Pending`: what is on stage, then the backlog, then
the channel. A new event is later than all that happened (`UpTo`), a full channel drops
its first message, which keeps the rest in order, and reading moves a message from one
part to the next. `Subscribe` puts the whole history behind an empty stage, which is why
a lost connection must clear it (`LoseKeepsStage` is that mistake). For `EventsKept` a
message stays in a sequence when no reset follows it (`StaysJoined`): the copy of the
history holds no reset, what is sent later comes behind it, and when a reset is sent all
that is kept of the history came after the first step of a `clear_history`
(`HistoryRight`).

*The replay.* The model's loops (`Events`, the waits of `Timeline`, `After`) are recursive
functions. `Loop` shows once that such a function exists and satisfies its equations, by the
least element of a set of counterexamples, and `AfterSplit` and `LastStateSplit` that
handling a part of the timeline and then the next is handling both: that is
`ShowsTheRecording`. It speaks of the events on stage and of the state; of the pick-up
mark it says that it is there when it should be, for it is kept in the recorded note and
stays there after a jump back (`watchagain` in section 5). For `NeverTooFast` the invariant must include the time the browser has
not yet given out: `position + since * Max(Speeds) <= limit`, unless the limit is the end
(`InPace`). `OneMove` says that only the first callback of a drawing finds time to give out,
which is `NeverLeaps`. `RestsAtTheEnd` needs that no entry comes after the last one's time
and that the story takes time: for a recording whose lines are out of order (`inverted` in
section 5) it is false. `EndsSettled` follows the balances from the recording
through the cut of `pjn-replay` and the timeline to the stage; a click at the wrong moment
(`clicked`) is what its hypothesis excludes.

Checked by TLC only: everything about liveness and fairness.

## 5. What does not hold

Besides the violation runs, the modules state claims of documents, comments and
messages that the code does not keep in general. Each `.cfg` named here leads TLC to a
counterexample of the given number of states; `again`, `page`, `deaf` and `watchagain` hold
several claims, to be checked one property at a time.

| cfg | property | what happens | claim |
|---|---|---|---|
| `relayless` (11) | `EventuallyPaid` | Without relays no run reaches the fallback: `connect` and a failed publish return `Err` (sender 191, 259, 299-307) | sender 13-14; `docs/threat-model.md`:99-101 |
| `oneline` (14) | `NoDoublePayment` | Two runs load one file before either saves (128, 213) and both pay | `README.md`:180-182 |
| `samewallet` (13) | `ToldIsPaid` | Another session's payment spent the reserved coin: the run reports it settled (243) | sender 244-249 |
| `again` (9) | `AbandonFreesCoins` | `--abandon` after a broadcast whose run was killed | sender 122-124 |
| `again` (8) | `NothingSentTwice` | A kill between send (297) and save (311) | `demo/README.md`:63-64 |
| `unsaved` (11) | `OneProposalPerCoin` | The receiver dies between its reply (371) and the save (267), and answers the same coin with another | session.rs 51-53 |
| `sessions` (19) | `OneProposalPerCoinEver` | The seen list is deleted with its session (273) | receiver.rs 47 |
| `again` (12) | `NoErrorAfterProposal` | The receiver dies between save (267) and clear (273), and refuses what it answered | transport lib.rs 128-131 |
| `starved` (24) | `RequestAnswered` | One request per run, and each run may be handed the same refused one first | receiver 317-318 |
| `reanchor` (10) | `ReplyInWindow` | A sender that died unrecorded listens from a later anchor | sender 283 |
| `keepalive` (11) | `SpentSecretGone` | After a completed payjoin the file is deleted (273), but the next pass of a `--keep-alive` run saves the same session again (267) | receiver 271-272 |
| `elsewhere` | `FoundInTheEnd` | A resumed session connects to the relays of the command line (223); a request on another relay of its URI is never found | `demo/README.md`:113 |
| `twice` (17) | `NeverAnsweredTwice` | `select!` takes a note although stop is set, and the successor takes it too (theater 692-694) | theater 177 |
| `lostok` (25) | `InvoicePaidOnce` | A broadcast was accepted and reported `Err`; the invoice stays unpaid (1028) | theater 628 |
| `page` (15) | `FailureMeansUnpaid` | Bob's reply was stored and reported as failed, Alice pays, the failed step stays | `demo/THEATER.md`:148-149 |
| `page` (29) | `DoneIsConfirmed` | The watcher of an earlier payment ticks `confirm` of this one (1077) | `demo/THEATER.md`:8-9 |
| `page` (10) | `CollectStaysTicked` | Bob collects before Alice's task says that the note waits (950) | `demo/THEATER.md`:59-60 |
| `deaf` (9) | `NoteCollected` | Bob's first connection fails and nothing tries again (675-678) | `demo/THEATER.md`:55-56 |
| `deaf` (4) | `PageNeverStaysBusy` | The browser leaves while `pay` waits for `inner` with `alice_busy` set (631-634): no task starts, and nothing clears it | theater 644 |
| `cleared` (10) | `NothingLost` | An event falls between the emptying of the history and the reset (257-260); `LostOnlyAmidClears` says that no other event is lost to a page that keeps up | theater 100 |
| `pagewait` (5) | `PageNeverWaitsOnSync` | `create_invoice` waits for a syncing wallet with `inner` in hand (508-523) | theater 160 |
| `clicked` (2) | `EndsWithBalances` | A click between the confirm step and the balances (theater 1077-1082) publishes a state, which `pjn-replay` takes for the end of the story | `demo/THEATER.md`:112-115 |
| `inverted` (2) | `EndIsTheEnd` | `write` takes the time (142) before the file lock (145): lines may be out of order, and the timeline steps back | `demo/THEATER.md`:77 |
| `watchagain` (3) | `PickedUpThatMoment` | `collected` is written into the note, an entry of the timeline (index.html 762, 768): after a jump back the note is already picked up | `demo/THEATER.md`:83 |
| `watchagain` (3) | `CaptionFits` | The words of the end stay when the viewer drags back | `demo/THEATER.md`:91 |

The double payment of `oneline`, and the repeated answers of `unsaved` and `twice`,
mark exactly the conditions under which the theorems and the passing runs hold.

## 6. Not modelled

* Contents of PSBTs, fees, signatures and descriptors: data of the payjoin and bdk
  crates; the models see only coins and verdicts.
* URI formatting, key generation, `status`, `local_only`, the page's layout, the replay
  site and the video script: stateless or output only.
* Transport: the expiry of wraps after seven days, the signature and the version of an
  envelope (a wrap can be opened or not), notifications that the client loses because its
  channel overflows.
* Replay: the look of a stage (an event is a kind), injecting the data into the page, a
  viewer who acts while callbacks of one drawing run (the browser does not let him), a
  position below 0 that is made worse by another early drawing.
* Theater: what the recorder writes is the feed's messages and is not modelled apart from
  the order of its lines (`inverted`).

## 7. Plan

Done, in this order: `Relays`, `Chain`, `Sender`, `Receiver`, `Payjoin` with `Ledger`;
type correctness and the two payer theorems; `ListenWindow` with its theorems;
`Theater`; `TheaterFeed`; `TheaterLocks`; the theorems on the ledger, the requests and
the replay guard.

Then: one run for both liveness properties of the payjoin; `Recv` with `Mailbox` and its
refinement proof; `Replay`; `TheaterProofs`; the theorem on the spent key.

After that: the invariants of all components as theorems, `TheaterLocksProofs`,
`TheaterFeedProofs` and `ReplayProofs`.

Last: `pay` in two steps, Bob tasks that take notes after they were told to stop, tasks
that need no fair lock, and `EventsKept`.

What could follow: `Payjoin` with `Mailbox` in place of
`Undelivered`, so that relay lists differ from run to run in the composition too.
