# op4: specifications of the messenger

op4 is a messenger that encrypts end to end and talks over Tor, with a terminal
client and an Android application. This directory holds TLA+ modules for its
stateful parts, TLC configurations that check them on small instances, and
proofs checked by TLAPS. Paths below are relative to the repository;
`app.rs` is `op4-tui/src/ui/app.rs`.

Contents: [the system](#the-system) · [modules](#modules) · [Vault](#vault) ·
[Outbox](#outbox) · [Ratchet](#ratchet) · [Handshake, Wire](#handshake-and-wire) ·
[Session](#session) · [Rotation](#rotation) · [Interface](#interface) ·
[Transport](#transport) · [Android](#android) · [runs and bounds](#runs-and-bounds) ·
[fairness](#fairness) · [proofs](#proofs) · [disagreements](#disagreements) ·
[observations](#observations) · [plan](#plan) · [not modelled](#not-modelled) ·
[how to run](#how-to-run)

## The system

The workspace has three crates: `op4-core` (cryptography, identity, storage),
`op4-tui` (the terminal program) and `op4-android`. The directory `src/` at the
top of the repository is an older copy that is not built.

| Part | Source | State it keeps | Operations | What makes it correct | Module |
|---|---|---|---|---|---|
| Vault | `op4-core/src/storage/vault.rs` | the files `vault.op4`, `vault.seq`, `vault.tmp`; `VaultUnlocked` in memory | create, unlock, save, check_rollback | an acknowledged save survives; files never torn; each passphrase keeps its meaning; a rollback is noticed | `Vault` |
| Ratchet | `op4-core/src/crypto/ratchet.rs` | DH key pairs, root and chain keys, counters, skipped keys | init_alice, init_bob, encrypt, decrypt | what is in reach can be read, once, and for its lifetime; old keys are gone | `Ratchet` |
| Handshake, one-time prekeys | `op4-core/src/crypto/handshake.rs`, `vault.rs`, `app.rs` | prekey secrets in the vault, prekeys in the bundles others hold | both sides of the handshake, consume, replenish, refresh | a prekey serves one session; both sides get the same key; offers are kept | `Handshake`, `Session` |
| Keys, bundles, certificates | `op4-core/src/crypto/keys.rs`, `identity/*.rs` | none | generate, sign, verify, encapsulate | who verifies holds what was signed | `Handshake` |
| Wire format | `op4-core/src/network/message.rs`, `crypto/hmac_auth.rs` | none | pad, serialise, parse, MAC | what one side writes the other accepts | `Wire`, `Session` |
| Outbox | `app.rs` | `payload.outbox`; `pending_confirms`, `in_flight`, `backoff_until` | send_message, flush, drain, prune | nothing lost, nothing sent twice at once, retries go on | `Outbox` |
| Inbound dispatch | `app.rs` | requests, conversations | handshake, data, revocation, prekey refresh, bundle request and response | a message is applied to the right contact | `Session`, `Rotation`, `Interface` |
| Contacts and navigation | `app.rs`, `ui/*.rs` | the list, positions in it, modes, draft, alert, badges | every key in every tab | what is shown and written concerns the contact that is named | `Interface` |
| Rotation, revocation | `app.rs`, `identity/revocation.rs` | identity keys, `last_key_seq` | rotate, revoke, apply | keys only move forward; nobody is left with keys whose secrets are lost | `Rotation` |
| Transport | `op4-tui/src/network/nym_client.rs` | control connection, hidden service, listener, permits, queues | init, accept, read, NEWNYM, send | what arrived is handled; nothing stays behind | `Transport`, `Outbox` |
| Start-up | `op4-tui/src/main.rs`, `ui/passphrase.rs`, `ui/input.rs` | terminal mode, attempts, the vault as read | prompts, first run, set-up and restoring of the terminal | the terminal is restored; two programs do not undo each other's saves | `Transport` |
| Android | `op4-android/src/**` | the same vault, no outbox | its own handlers | as above | `Android` |

**How they interact.** In the terminal client one thread runs the loop of
`app.rs`: draw, at most one key, all inbound frames, the finished confirmations,
and every 50th pass a flush of the outbox. It owns the vault and calls the core
synchronously; every handler that changes something ends in `vault.save()`, whose
error is dropped. The transport is a set of tokio tasks: one takes items from a
bounded queue and spawns a task per item; one accepts connections and spawns a
task per connection; one sends cover traffic into the same queue. Tasks and loop
share the send queue, an unbounded receive queue and one oneshot channel per
confirmed item. Confirmations and frames arrive in any order. In the Android
application everything happens in `Op4App::update`, once per drawn frame.

**What is hard about it.** Kills between two file operations, and saves that
fail and are ignored; retries after an answer was lost; frames reordered,
repeated and lost; positions in lists that change; two users who write first at
the same time; state that is announced to others before it is on disk; a second
program on the same vault; a certificate that is late or repeated.
`PROJECT.json` lists the hazards line by line, with the property that covers each.

## Modules

| Module | Kind | Models |
|---|---|---|
| `Vault` | component | vault file, marker, temporary file and one process, per file operation |
| `VaultRegister` | abstract | the register that is written in one step, implemented by `Vault` |
| `Outbox` | component | the outgoing half of the terminal client with the transport's queue and tasks |
| `DurableQueue` | abstract | the durable at-least-once queue, implemented by `Outbox` |
| `Ratchet` | component | two Double Ratchets over an unreliable network |
| `Handshake` | functions | keys, bundles, signatures, certificates and both sides of X3DH, symbolically |
| `Wire` | functions | sizes of all messages, padding and truncation, the cap on receipt |
| `Session` | component | users who exchange codes, requests, handshakes, prekeys and messages |
| `Rotation` | component | users who rotate and retire keys; composed with `Handshake` and `Wire` |
| `Interface` | component | the loop, all keys and what arrives, for one user |
| `Transport` | component | `main()` and the Tor transport of several programs |
| `Android` | component | `Op4App::update` and everything it calls |
| `MC...` | instances | values of the constants for TLC |
| `VaultProofs`, `OutboxProofs`, `RatchetProofs`, `SessionProofs`, `RotationProofs`, `InterfaceProofs`, `TransportProofs`, `AndroidProofs` | proofs | the safety properties of the component, and the refinement of `VaultRegister` and `DurableQueue` |

The modules fit together. `Vault` shows that `save()` is atomic towards kills, so
the others save in one step. `Outbox` shows that a position of the ratchet is on
disk before it is on the wire, which `Ratchet` takes for granted by keeping its
state across everything. `Ratchet` and `Session` repeat every message, as the
retries of `Outbox` do; `Session` represents the ratchet by its root and by whether
it has a sending chain, the part of `Ratchet` on which the control of `app.rs`
depends, and whether it opens a message by the result of `Wire`. `Session` leaves
identity keys fixed, and `Rotation` changes them and leaves prekeys out.
`Interface` keeps of sessions and certificates what the screen depends on.

A definition whose comment starts with `Mutant:` is not part of a specification.
It is a plausible mistake; put in the place of the definition after it, it makes
the property named in `PROJECT.json` fail.

## Vault

**State.** `vaultFile` and `marker` are what the two names show, `tmp` is the
shared temporary file, `mem` the unlocked session (`VaultUnlocked`), `job` the
file operation the process is about to do. `olderVault`, `olderMarker` and
`dirty` stand for what the disk may show after a power cut, because the code
syncs the temporary file and not the directory. `acked`, `versions`, `tampered`
and `cut` (the power failed) are history. The payload is a member of a small set.

**Actions.** `Create`/`SetupKeys` (first run, `main.rs`), `Unlock`, `Edit`,
`Save`; `WriteTmp`, `SyncTmp`, `RenameVault`, `RenameMarker` are the steps of
`write_atomic` for the vault and then the marker; `Fail` makes any of them
return an error; `Exit` is an exit or a kill between any two; `PowerCut`,
`Restore` (an older copy is put back) and `RemoveMarker` are the environment.
`save()` increments the sequence number before it writes and leaves it
incremented when it fails: `Fail` does not touch it.

**Properties.** `AckedDurable` promises nothing after a power cut: without a sync
of the directory the last rename may vanish, and the model has such behaviours.
`RollbackDetected` is about the answer of `check_rollback()`; no caller in the
repository asks it outside the tests. It holds because a missing marker is an alarm on
a vault that was ever saved, which the comment above the function denies (see
[disagreements](#disagreements)). A rollback of exactly the save that was
interrupted between the two renames is not noticed, which is why the property
speaks of acknowledged saves. What a power cut or a restore would break says
`~cut` or `~tampered`: it holds up to that moment, in the same behaviours.

## Outbox

**State.** `pc` is where the thread of `app.rs` is: at a save, in a flush, at a
key, in the drain. `outbox`, `pendingConfirms`, `inFlight`, `backoff`,
`retryTick` are the fields of the same names; `savedOutbox` and `savedRatchet`
are the vault on disk; `sendQ`, `rxState`, `payload` are the transport: the
queue, and per oneshot channel what became of its item. `ratchet` counts the
messages composed for a contact and `key` remembers each message's position;
position 1 is the handshake.

**Correspondence.** `Compose`, `Save`, `Handoff` are the three parts of
`send_message` between which a kill or a task can come; `Drain` is
`drain_pending_confirms` with `rebase_outbox_indices`; `Collect`, `FlushOne`,
`FlushEnd` are `flush_outbox`; `Start` is unlocking with `prune_outbox`; `Spawn`,
`WriteFrame`, `Confirm` are `outbound_loop` and its tasks, and `Fails` the three
ways an attempt ends without success: the task, the SOCKS handshake, the write.
`SendCover` is any other sender. `Killed` takes everything but the disk.
`FailingSaves` names the calls of `save()` that may fail, by where the code makes
them.

**Abstractions.** `backoff` holds the ticks left rather than the tick at which it
ends, and `retryTick` is kept modulo the interval: the code only compares them.
`age` is `sequence - created_seq`, counted up to `MaxSeqGap`, and `retries` up to
`RetryBound`: beyond those values no comparison changes. The order of
`pending_confirms` is not kept; it only decides which of two failures of the
same contact in one drain sets the backoff, and the model allows either.
`RemoveIndices` is the closed form of removing the delivered indices one by one,
the largest first; `MCOutbox` asserts that the two agree for all outboxes of up
to five entries.

**What `wire` means.** The bytes of the message were accepted by the local
connection. `DurableQueue` promises that much and no more; a confirmed message
can still be lost behind it.

## Ratchet

**Symbolic keys.** A public key is `<<owner, number>>`; a DH output is the set of
two public keys, which makes both sides compute the same; a root key is the
sequence of DH outputs hashed into it; a chain key, and the message key split
from it, is that sequence with a number of steps. A message opens only under the
very key it was encrypted with, so a ratchet that turned to the wrong chain
fails as the code does.

**Correspondence.** `Decrypt` is `ratchet_decrypt` with its four steps and all its
error returns, and yields the state that is left behind in each case.
`SkipMessageKeys`, `DhRatchetStep`, `Purge`, `RatchetEncrypt` are the functions
of those names. `Stored` is what `handle_inbound_data` does with the result: the
copy of the state is stored only on success. `Deliver` may take any message ever
sent, any number of times, in any order, or never.

**Properties.** `ReplayRejected`; `Readable`: whatever is within `MAX_SKIP` and not
expired can be read; `ExpiredUnreadable`: a key set aside does not outlive
`SKIPPED_KEY_MAX_AGE`; `ForwardSecrecy`: a stored state gives away no key of a
message handled, neither through its chains from their current step on, nor the
next receiving chain, nor the buffer. `Readable` exempts what is `OutOfReach` of the
receiver's position; `FewLossesHarmless` says in terms of messages what it takes to get
there: more than `MAX_SKIP` messages before one that were not read. Once that happened
the later messages of the direction stay unreadable, and nothing in the code recovers.
Nothing is said about messages being delivered: the network need not deliver any.

The module is about the ratchet as `op4-core` offers it. In the terminal client
padding and MAC stand before it, and `Session` shows what gets through.

## Handshake and Wire

`Handshake` names a public key like its secret. A DH output is the set of the two
keys, a KEM ciphertext opens to its secret with one key only (the wrong key gives
another secret, not an error, as in ML-KEM), a session key is the tuple of what
`combine_dh_outputs` hashes, and the MAC of the first message is the session key.
Vaults and bundles of the version before the ratchet secret are included: both
sides fall back to the KEM key (`load_ratchet_secret`, `SignedPrekey`).

`Wire` computes the length in bytes of each kind of message from the fields of its
type and postcard's encoding, what `with_padding` does to a ciphertext, and the
4608 bytes a receiver accepts. `Intact` says whether the receiver gets back the
ciphertext that was sealed: only when there was nothing to pad or cut.

## Session

**State.** `mem` and `disk` are each user's payload unlocked and as last saved
(prekeys, contacts, conversations), `ram` what is only in memory (`pending`
requests, bundle requests `asked`, the exported `code`). `net` is every frame ever
sent: it can be received any number of times, in any order, or never. `codes` are
the contact codes ever shown. `drawn` numbers keys. `heard` and `killed` are history.

**Correspondence.** A handler is an operator from vault and memory to both anew,
the frames it sends, and whether it saves (`Effect`): `HandleHandshake`,
`HandleData`, `HandleOpkRefresh`, `HandleBundleRequest`, `HandleBundleResponse`,
chosen by `Handle` after the size check. `Receive` applies it. `AddByCode`,
`ScanBootstrap`, `SendFirst` and `SendMore` (the two paths of `send_message`),
`Accept`, `Reject`, `Delete` and `Restart` are what the user does. As in the code,
a handshake uses up the prekey whoever sent it, announces a new batch before
anything is saved, and saves only for a known sender.

**Properties.** `OpkServesOnce` and `OffersHonoured` exempt users whose program was
killed: a kill between the prekey's use or announcement and the next save brings
the prekey back, or loses the secrets of those announced, and TLC shows both at
once without the exemption. `SessionIsWithContact` holds in spite of repeated
handshakes, crossing first messages and deleted contacts; `NothingToLose` says that
what the user sees is on disk.

## Rotation

**State.** `mem` and `disk` hold a user's keys, address, sequence number and contacts;
`service` is the address of the hidden service the program serves, computed at its
start; `net` and `codes` are certificates and codes ever sent or shown.

**Correspondence.** `Rotate` and `Revoke` are `rotate_keys` and `revoke_key` with
their broadcasts, `RotateKilled` is a kill between the broadcast and the save,
`Restart` an exit (with its save) or a kill followed by a start, which derives the
address from the keys. `Receive` is `handle_inbound_revocation`: `Revoked` finds the
contact and verifies, `Stale` compares sequence numbers, `Applied` installs or
removes.

**Properties.** `NoKeyRollback` (an action property), `ChainUnbroken` (a certificate
for the key an entry has is never stale), `HandshakeAgrees` (who holds the newest
bundle can open a session, also with a vault of the old version and after a
restart, unless a kill fell into the rotation). A rotation certificate is longer
than receivers accept (see [observations](#observations)); the passing run raises
`WireCap` so that what lies behind the limit is checked, and `RotationCode` uses the
code's value.

## Interface

**State.** `ui` is `AppState`: tab, mode, the positions `selected`, `active` and
`loaded`, the messages shown, draft, alert, pending requests, settings row and edit.
A conversation is its number of messages and its badge. `phase` is where the loop
is: about to draw, about to read a key, or handling what arrived.

**Correspondence.** `Draw` is the head of the loop with its reload and the clearing
of the badge; there is one action per key and mode of `handle_contacts_key`,
`handle_conversation_key`, `handle_settings_key`, `handle_key_alert`; `Deliver`,
`QueueRequest`, `InstallKey`, `RetireContact`, `ReceiveBundle` are the inbound
handlers' effects on the interface. Typed text is there or not; a code read from
the popup is chosen at Enter. `AlertRejectPanics` is `remove` with a position past
the end of the list: the program ends.

**Properties.** `DraftKeepsRecipient`, `ShownIsCurrent`, `UnseenIsCounted`; each names
the one kind of event after which the code does not keep it, as a flag of history
(`interrupted`, `moved`, `displaced`). `ConversationOpens` is the least of what the
tutorial promises, that no message of somebody else is in the pane, while only the
user's own keys change who is current; it fails.

## Transport

**State.** `prog` is where each program is between its first prompt and its end, its
terminal and what it read of the vault; `file` counts the writes of each vault;
`onions` are the services Tor has, `listener` the program that holds port 14101,
`conn` the inbound connections, `queue` what was received and not yet handled.

**Correspondence.** One action per step of `main()` (`Start`, `Unlock`, `Create`,
`CreateKeys`, `SetupTerminal`, ...), of `NymClient::init` (`Authenticate`,
`AddOnion`, `Bind`, `EnterLoop`, with `InitFails` for every early exit), of the
control task (`SignalNewnym`, `ControlLoop`) and of `inbound_loop` (`Accept`,
`FrameArrives`, `FrameFails`, `ReadFrame`); `Die` is a kill or panic at any step,
`TorRestart` the daemon.

**Properties.** `NoLostUpdate`: nothing locks the vault, and the listening port is
what keeps a second program out of the loop; that protects only if the second one
did not read the vault before the first one ended (`overlap`). `LeavesNothing`: every way
out except a kill, a panic or a half-done `setup_terminal` restores the terminal
and closes the service. `FrameHandled`: whatever other peers leave unfinished.

## Android

**State.** `mem`, `disk`, `app` (the fields of `Op4App`), `inq` (received frames) and
`boot` (the background bootstrap).

**Correspondence.** One `update` is a run of steps on the same thread: `TakeTransport`
takes the bootstrap's result, `HandleFrame` handles one of the frames that wait, and
`Idle` or a click is what follows when neither is left (`Polled`). A click acts on
`Ready`, the state after `ReloadedIfChanged`; `Become` puts the record a step worked on
into the variables. The proofs show that `ReloadedIfChanged` never finds anything to do
(`ReadyIsNow`): every step that shows the conversation has loaded it.
`Send` is `send_message` with its three outcomes (no transport, channel full,
handed over); `Kill` and `KillSending` are the system's. Frames are sized by `Wire`.

**Saves.** Every error of `save()` is dropped, so that a save may fail and the session
goes on with the disk behind it. The record a step works on carries the set of payloads
that may be on disk after it: `Saved` adds the current one, and `Become` picks. `Create`
is the first run with its two writes, `VaultUnlocked::create` with an empty payload
and the save of the keys: if that save fails, or the application is killed before it, the
disk has a vault without keys, and no later start makes any (`Unlock` does not look).

**Messages received.** A Data message names in its MAC the id that the sender has for
the receiver, which the receiver compares with the id it has for the sender. The two
never agree, so that none is accepted. For what lies behind that check the run takes
peers whose ids agree (`IdsAgree`), of which no version exists: with them the ratchet is
stored, the side that accepted gets its sending chain, and the screen is refreshed if the
selected entry is the first of that contact.

**Properties.** `PositionSentOnce`: the session advances in memory whether or not the
message went out, and is saved only if it did. A position is used twice only if the
application is killed after a send and before the next save that succeeds: `unsaved` holds
the sessions at stake and `torn` those for which it happened. `ShownIsCurrent` relates the
messages on the screen to the selection through deletions, alerts, retirements and
arrivals; of a contact that is in the list twice it speaks of the first entry, the only
one `handle_inbound_data` refreshes. `PrekeySpentOnRequest`: a request that finds no room
costs its sender nothing; it speaks of the time before the first kill.

## Runs and bounds

Nine runs pass and together take every action; three must find a violation.

| Run | Question | Instance | States |
|---|---|---|---|
| `VaultCrash` | is `save()` atomic, durable and its rollback noticed, with kills, failures, power cuts or restores | one payload beside the empty and the decoy one, numbers 0 to 2 | 1.0 M |
| `OutboxIndices` | do the indices of confirmations stay right; is anything under way twice | 3 messages, 2 contacts, a queue of one item, cover traffic | 1.9 M |
| `OutboxCrash` | is the outbox a durable queue that drains, over kills and failing saves | 2 messages after the handshake, 3 channels | 312 k |
| `Ratchet` | what can be read, when, how often, and what is given away | 5 messages each way, `MAX_SKIP` 2, lifetime 2 | 316 k |
| `Session` | who ends up with which session, prekey and contact | 3 users, batches of 2, threshold 1, one request, 5 operations | 161 k |
| `Rotation` | do keys only move forward and remain usable | 2 users, 3 identities each, 6 operations, with kills and old vaults | 433 k |
| `Interface` | whose messages are shown, to whom the draft goes, what the badges count | 2 peers with 2 keys, lists of 2, 6 keys or arrivals | 1.6 M |
| `Transport` | two programs on one vault and one daemon, and peers that stall | 2 programs, 2 connections, one permit, 3 writes, 2 starts | 389 k |
| `Android` | positions, screen and prekeys over kills, failing saves and a transport that is not there | 1 peer, lists of 2, 7 clicks or frames, of these 2 frames, 1 kill | 873 k |
| `SessionReply`, `RotationCode`, `InterfaceShown` | see [disagreements](#disagreements) | as the runs of the same modules; `RotationCode` with the real cap of 4608 bytes | |

**Vault.** Three successive versions suffice: every property relates at most an
acknowledged, a current and a replaced one. Sessions fail and restart without bound.
Behaviours with both a power cut and a restored file are left to the proofs
(`OneFault`).

**Outbox.** Entries of one contact shift those of the other, which needs three
messages and two contacts; a queue of one item is full whenever something is in it.
Three channels suffice: no more attempts than entries are under way. In
`OutboxCrash` every save may fail but the one of `send_message`; adding
`"compose_save"` to `FailingSaves` shows what that one costs (see
[observations](#observations)).

**Ratchet.** Five messages each way let both peers turn the ratchet more than once,
with gaps of one, two (within `MAX_SKIP`) and three, also across two chains, and a key
outlive its lifetime.

**Session.** Scanning, a first message and its acceptance are three operations (frames
are received without counting), and five leave room for a second importer of a code,
for crossing first messages, and for a kill in between. Batches of two with a
threshold of one mean that the first prekey used draws a new batch. Texts of 40 and
484 bytes are one that is padded and one that is not.

**Rotation.** Six operations are enough to exchange codes, rotate twice with
certificates out of order, and restart.

**Interface.** Six events exceed the shortest way to every violation of a mutant and
to `ConversationOpens`. Lists of two have every relation between selected, active
and loaded position, one of them past the end included.

**Transport.** One permit and two connections show a refused one and a stalled one;
two starts are two programs, or one twice.

**Android.** Seven events reach a message repeated at the same position after a kill,
if a save is left out, and the messages of one contact kept under another's name, if
a reload is; six reach only the first. One peer gives two contacts, of its code and of
its request, with different ids. `WireCap` is raised as in `Rotation`, so that
certificates with a new key are handled.

In `Session`, `Rotation`, `Interface` and `Transport` behaviours end at their bounds
(and programs do end), so that deadlock is not checked there.

## Fairness

- `Outbox`: the loop turns, the user starts the program again, and tokio polls
  every task and the queue (weak fairness). Nothing is assumed of the network;
  `QueueDrains` has it as its premise, `Calm`: from some time on no attempt fails and
  nobody ends the program. The run has no cover traffic: a sender that refills the
  queue before every flush could starve it.
- `Transport`: the reading tasks run, the loop is entered after the last step of
  start-up, and its pass takes what is in the queue. Peers, users and Tor need not do anything.
- The other modules state safety only, `Ratchet` among them: the outbox stops when a frame
  was written, so that nothing in the code delivers a message again until it is accepted.

## Proofs

Every safety property of the passing runs is proved for all values of the constants:
any number of users, programs, messages and entries, any limits, and none of the bounds
that the runs need. TLC checked each inductive invariant on the instance of the run
before it was proved.

| Module | Theorems | Property |
|---|---|---|
| `VaultProofs` | `TypeCorrect`, `NeverTornAlways`, `PassphrasesAlwaysKeepMeaning`, `AckedAlwaysDurable`, `SeqAlwaysNamesVersion`, `RollbackAlwaysDetected` | `TypeOK`, `NeverTorn`, `PassphrasesKeepMeaning`, `AckedDurable`, `SeqNamesVersion`, `RollbackDetected` |
| | `Refinement` | `ImplementsRegister`: `Vault` implements `VaultRegister` |
| `OutboxProofs` | `TypesCorrect`, `TrackedAlways`, `NeverDoubleSend`, `KeysAlwaysUnique` | `TypeOK`, `TrackedEntries`, `NoDoubleSend`, `UniqueMessageKey` |
| | `OutboxIsDurableQueue` | `ImplementsQueue`: `Outbox` implements `DurableQueue` |
| | `Removal` | `rebase_outbox_indices` names the place an entry moved to |
| `RatchetProofs` | `TypesCorrect`, `NeverReadTwice`, `InReachIsReadable`, `ExpiredIsGone`, `ForwardSecret`, `FewLossesAreHarmless` | `TypeOK`, `ReplayRejected`, `Readable`, `ExpiredUnreadable`, `ForwardSecrecy`, `FewLossesHarmless` |
| `SessionProofs` | `TypesCorrect`, `PrekeysServeOnce`, `SessionsWithTheirContacts`, `OffersAreHonoured`, `KillCostsNothing` | `TypeOK`, `OpkServesOnce`, `SessionIsWithContact`, `OffersHonoured`, `NothingToLose` |
| | `IntactWhen`, `DataAlwaysFits` | for which lengths of text padding changes nothing; no Data message is too long |
| `RotationProofs` | `TypesCorrect`, `ChainNeverBreaks`, `KeysNeverRollBack`, `HandshakesAgree` | `TypeOK`, `ChainUnbroken`, `NoKeyRollback` (an action property), `HandshakeAgrees` |
| | `KeysAgree` | both sides of the handshake compute the same key exactly if the bundle used has the keys its owner answers with |
| | `OnlyRetirementsFit` | no certificate with a new bundle is short enough to be received, every other one is |
| `InterfaceProofs` | `TypesCorrect`, `DraftsKeepTheirRecipient`, `PaneIsCurrent`, `NoMessageUnnoticed` | `TypeOK`, `DraftKeepsRecipient`, `ShownIsCurrent`, `UnseenIsCounted` |
| `TransportProofs` | `TypesCorrect`, `NoUpdateIsLost`, `NothingIsLeft` | `TypeOK`, `NoLostUpdate`, `LeavesNothing` |
| `AndroidProofs` | `TypesCorrect`, `PositionsSentOnce`, `ShownIsTheirs`, `PrekeysServe` | `TypeOK`, `PositionSentOnce`, `ShownIsCurrent`, `PrekeySpentOnRequest` |

Each module rests on one inductive invariant, whose parts say what the properties
leave open.

**Vault** (`VaultInv`). None of the properties is
inductive: after `WriteTmp` the next two steps put the temporary file in place,
so `JobInv` says what it holds at each step of a job and that it was synced
before a rename; `SoundInv` says that every version ever written, the restorable
ones included, has its sections under the right keys and that a session holds
the section it does not open unchanged; `SeqInv` says that the file carries the
highest number of all versions and a save that has not yet renamed the vault
carries a higher one, which makes its version new; `AckInv` links the last
acknowledged number to the vault and the marker.
`Refinement` maps the rename of the vault to the register's commit and everything
else to a step of its environment or a stutter.

**Outbox** (`OutboxInv`). `ChannelInv`: a channel is in use from the send until its
confirmation is drained, and the queue holds it once; `LoopInv`: what the loop is about
to hand over is not under way; `MessageInv`: a message is in a queue once. With the
lemmas about `RemoveIndices` and `Rebase` these keep `TrackedEntries` through all
removals, and `NoDoubleSend` follows from that. `RatchetInv`: the
ratchet on disk is as far as any message on the wire or in the saved outbox; `QueueInv`:
the two outboxes differ in what is being composed and in what was sent or given up.
`KeysAlwaysUnique` and `OutboxIsDurableQueue` assume that the save within
`send_message` does not fail. That is an assumption about the disk and not about the code:
without it both are false (see [observations](#observations)). Every other save may fail.

**Ratchet** (`RatchetInv`). The key pairs of both peers are made in turn, so that the
number of a pair says which root key was derived from it: `KeysInv` gives each
peer's keys by that number, and says that neither is more than a turn ahead.
`SentInv` is about the log: each message carries the key of its place in its chain, the
places of a chain have no gap, and `pn` is the length of the chain before.
`ReadInv` says that what a receiver is past was read or set aside, and that the buffer
holds exactly the keys that were set aside, not used and not expired. `Readable` is
about every message in reach and needs all three: the keys between the
receiver's place and the message are those of messages in the log. That places have no
gap also turns a distance of more than `MAX_SKIP` places into as many unread messages
(`FewLossesHarmless`).

**Session** (`SessionInv`). `OfferInv`: a prekey in any code, frame or contact is in the
vault of its owner or was used, unless he was killed; `ConvInv`: every session a vault keeps
is one its contact started or was sent, and contacts and conversations in memory are
those on disk; `FreshInv`: the prekeys of a user who was not killed are drawn and used
once.

**Rotation** (`RotationInv`). Nothing about a receiver holds without knowing where bundles
and certificates come from: `CodeInv` and `CertInv` say that they were made by their
owner from keys he drew, with numbers below his own and in the order of the keys;
`OwnInv` says of each entry that its number is the one under which its key was announced.

**Interface** (`InterfaceInv`). `DraftInv`: a draft exists on the tab of conversations
only; `PaneInv`: when a key is read the contact at hand was loaded; `CountInv`: what is
neither counted nor shown is shown by the next draw (`Awaits`).

**Transport** (`TransportInv`). `PortInv`: the port belongs to the one program past
`bind`; `VaultInv`: of two programs with one vault in memory each is known to overlap or holds
the port; `TerminalInv` and `OnionInv`: the terminal's mode by the place in `main()`, and no
service without a program.

**Android** (`AndroidInv`). Nothing that was handed over is ahead of its session in memory,
nor on disk, which the next start continues, but for sessions sent in since the last save
that succeeded (`Behind`). No two
conversations share a session. What is shown was read from the selected contact
(`Fresh`). Before a vault is open all of this is about the disk (`Closed`).

**Assumptions on constants.** They say that the values that stand for "none" differ from
those they stand beside (`NoKeyIsNone`, `NoneIsNothing`, parts of the others), that limits are
natural numbers, that a batch of prekeys is larger than the threshold (as in the code,
`OPK_BATCH_SIZE` 10 and `OPK_REPLENISH_THRESHOLD` 3), and for `Interface` that the first list of contacts fits
into its bound.

**What stays with TLC.** Liveness (`QueueDrains`, `FrameHandled`), which is out
of the prover's reach, and the runs that find a violation. That the closed form
`RemoveIndices` equals the loop that removes one index after the other is induction over data
and is compared for outboxes of up to five entries (`MCOutbox`).

## Disagreements

The first three are runs that must find a violation; `PROJECT.json` quotes the lines.

| Run | The text says | The code does |
|---|---|---|
| `SessionReply` | after accepting a request, "Switch to Messages to reply." (`app.rs:1073`); "Replying and receiving a reply works correctly" (`docs/TESTING.md:108`) | the accepting side has no sending chain and gets one only from a Data message, none of which is ever accepted: padding is not removed, and the MAC covers different ids on the two sides |
| `InterfaceShown` | with a contact selected, `2` opens its conversation (`docs/TUTORIAL.md:225`) | `d` leaves the loaded position, so that the deleted contact's messages stay in the pane under the name of the next one |
| `RotationCode` | share the new code after a rotation (`README.md:293`) | the new code has the address of the service of the old keys; the next start serves another |
| `VaultCrash` (passes) | `check_rollback` returns "`false` if OK or no marker exists" (`vault.rs:417`) | without a marker it returns true on a vault that was ever saved (422, with a comment that says so); `RollbackDetected` needs that, and would fail for a function that did what 417 says |

## Observations

Met while modelling; no run is spent on it. The modules have these behaviours, but for
the addresses of cover traffic, the handler for SIGTERM and the texts of the status line,
which are not modelled.

- A kill between the two renames of `save()` leaves the marker behind the vault
  (`vault.rs:411`), although the comments at 571 and 580 say that it cannot; the next
  save repairs it.
- If the save within `send_message` fails (`app.rs:1569`) the message is sent all
  the same, and after a restart the next one uses the same position of the ratchet.
- Every new message is handed to the transport at once (1572), past queued ones, so
  that "FIFO ordering per contact" (1618) holds for one flush only.
- Retries are counted in every drain but entries with too many are pruned only when
  the program starts.
- `MAX_SKIP` bounds each call of `skip_message_keys`; the buffer can hold more, from
  several chains, until the keys expire.
- A certificate with a new bundle is 6869 bytes long and the receiver drops what
  exceeds 4608 (`message.rs:97`): with the constants as they are no rotation reaches
  anybody. A handshake with a long first message meets the same limit.
- A delivery confirmation means that bytes went out. A Data message that arrives
  before its handshake was accepted matches no session and is dropped.
- Certificates and prekey refreshes update the first entry of a contact that is in the list twice.
- Accepting a request of a contact whose conversation still exists replaces its messages
  and keeps its badge (`app.rs:1056`), which can then exceed the number of messages.
- The badge is cleared when a contact is merely selected, also behind another tab;
  the comment at `app.rs:254` says when the conversation is opened.
- Cover traffic goes to addresses synchronised at four places (`app.rs:239, 966,
  1070, 2371`); deleting a contact is not one of them. The Android application never sets them.
- A peer that announces a frame and does not finish it holds its permit without a
  time limit. A restart of Tor loses the hidden service and nothing notices.
- The handler for SIGTERM replaces the default action, and nothing looks at what it
  sets while a prompt is open.
- A `setup_terminal` that fails half-way leaves raw mode or the alternate screen
  (`main.rs:86`); the comment at 245 has `restore_terminal` called on all error paths.
- The status after accepting a request (`app.rs:1073`) is overwritten a few lines below
  (1076, 1081) and never drawn.
- If the first save of the keys fails, or the program is killed before it, the vault is
  one without keys, and every later start takes it as it is (`main.rs:209`,
  `op4-android/src/ui/passphrase.rs:156`).
- The Android application ignores errors of `save()`: a position is used again if a save
  after a send fails, none succeeds later, and the application is killed. It has no retry
  for a message whose connection fails, and accepts no Data message, for the reasons of
  `SessionReply`.

## Plan

All components with state are modelled, and the safety properties of the runs are proved.
What is left, in this order:

1. An abstract specification of what two ratchets promise together (a channel that
   delivers each message at most once), implemented by `Ratchet`.
2. More action properties: what a save, a removal and a kill never do in `Outbox`, `Session`
   and `Android`.

## Not modelled

- The cryptographic primitives: symbolic in `Handshake` and `Ratchet`. Key
  serialisation and `KeyChangeGuard`, which nothing calls.
- Text: codes and their encoding, Argon2, the strength estimate of passphrases,
  drawing, QR codes, layout, typing beyond whether there is a text.
- The hardening calls at start-up, which run once and change no state of the program.
- The older crate in `src/`, which is not a member of the workspace.
- In `Android`, whether a contact is verified, the settings (nothing reads them)
  and the outbound task of its transport.
- Wall-clock time and the anonymity of the transport.

## How to run

    tlc -config Session.cfg MCSession.tla        # any run: its cfg and MC module
    tlapm VaultProofs.tla                        # any module of proofs
