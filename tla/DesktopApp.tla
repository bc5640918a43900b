----------------------------- MODULE DesktopApp -----------------------------
(***************************************************************************)
(* The desktop miner as its user meets it: the window                      *)
(* (src/clients/desktop-miner/src), the backend it drives (DesktopMiner),  *)
(* and the wallet file, which is all that outlives the process.            *)
(*                                                                         *)
(* The window calls a command and goes on.  The main thread runs commands  *)
(* one at a time; a call that would wait for it is taken to be made when   *)
(* it is free.  Answers reach the window later, in order, and events of    *)
(* the mining threads by a queue of their own.  Keys, passwords, amounts   *)
(* and addresses are left out: a command that checks them may be refused.  *)
(***************************************************************************)
EXTENDS DesktopMiner, SequencesExt

CONSTANTS
    MaxCalls,      \* bound: answers not yet delivered
    MaxEvents      \* bound: status events not yet delivered

ASSUME AppAssumption == MaxCalls \in Nat /\ MaxEvents \in Nat

VARIABLES
    disk,          \* the wallet file: "none", "torn" (unreadable) or "wallet"
    answers,       \* answers on their way: [cmd, answer, live], live while the
                   \* component that made the call is mounted
    events,        \* miner://status events on their way
    screen,        \* App's status, by the screen it selects
    mode, busy,    \* SetupWizard; busy is UnlockScreen's too
    shown,         \* MineDashboard's running
    sending        \* SendModal: its status is "sending"

dashboard == <<shown, sending>>
window == <<screen, mode, busy, dashboard>>
appVars == <<vars, disk, answers, events, window>>

WalletStatus ==
    IF unlocked THEN "dashboard" ELSE IF disk = "wallet" THEN "unlock" ELSE "setup"

(* start_mining is the one command during which the screen may change.     *)
Answer(cmd, a) ==
    [cmd |-> cmd, answer |-> a, live |-> (cmd = "start" => screen = "dashboard")]

AppInit ==
    /\ Init
    /\ disk \in {"none", "wallet"}
    /\ answers = <<Answer("status", WalletStatus)>> /\ events = <<>>
    /\ screen = "loading"
    /\ mode = "choose" /\ busy = FALSE
    /\ shown = FALSE /\ sending = FALSE

-----------------------------------------------------------------------------
(* What the user does, and the commands it runs.                           *)

Idle == command = "none"
Respond(cmd, a) ==
    /\ Len(answers) < MaxCalls
    /\ answers' = Append(answers, Answer(cmd, a))
    /\ UNCHANGED events

(* SetupWizard: choose a way, or go back, even while a command runs.       *)
Switch(modes) ==
    /\ mode' \in modes
    /\ UNCHANGED <<vars, disk, answers, events, screen, busy, dashboard>>

Choose == screen = "setup" /\ mode = "choose" /\ Switch({"password", "import"})

(* The buttons of its two forms.                                           *)
PasswordForm(button) ==
    screen = "setup" /\ mode = "password" /\ (button = "submit" => ~busy)

ImportForm(button) ==
    screen = "setup" /\ mode = "import" /\ (button = "submit" => ~busy)

Back == (PasswordForm("back") \/ ImportForm("back")) /\ Switch({"choose"})

(* Mutant: the key is put in place before it is saved.                     *)
save_wallet_late(cmd) ==
    \/ UnlockWallet /\ disk' = "wallet" /\ Respond(cmd, "ok")
    \/ UnlockWallet /\ disk' \in {disk, "torn"} /\ Respond(cmd, "err")

(* create_wallet and import_wallet: saved, then put in place; or refused,  *)
(* for the password, the secret or a write that fails before it begins or  *)
(* half way (or is cut by a crash: Restart before the answer).             *)
save_wallet(cmd) ==
    \/ UnlockWallet /\ disk' = "wallet" /\ Respond(cmd, "ok")
    \/ Idle /\ UNCHANGED vars /\ disk' \in {disk, "torn"} /\ Respond(cmd, "err")

Press(form) == form /\ busy' = TRUE /\ UNCHANGED <<screen, mode, dashboard>>

create_wallet == Press(PasswordForm("submit")) /\ save_wallet("create")
import_wallet == Press(ImportForm("submit")) /\ save_wallet("import")

(* The backup screen's one button.                                         *)
BackupScreen == screen = "setup" /\ mode = "reveal"

(* "I've saved it": onDone, App's refresh.                                 *)
Saved ==
    /\ BackupScreen
    /\ Idle /\ Respond("status", WalletStatus)
    /\ UNCHANGED <<vars, disk, window>>

UnlockForm(button) == screen = "unlock" /\ (button = "submit" => ~busy)

unlock_wallet ==
    /\ UnlockForm("submit")
    /\ \/ disk = "wallet" /\ UnlockWallet /\ Respond("unlock", "ok")
       \/ Idle /\ UNCHANGED vars /\ Respond("unlock", "err")
    /\ busy' = TRUE
    /\ UNCHANGED <<disk, screen, mode, dashboard>>

(* "Forgot password?", confirmed: the wipe, even while an unlock runs; it  *)
(* does not look whether the file could be removed.                        *)
forget_wallet ==
    /\ UnlockForm("wipe")
    /\ LockWallet /\ disk' \in {"none", disk} /\ Respond("forget", "ok")
    /\ UNCHANGED window

lock_wallet ==
    /\ screen = "dashboard"
    /\ LockWallet /\ Respond("lock", "ok")
    /\ UNCHANGED <<disk, window>>

(* The one button: Start, which the last balances and configuration read   *)
(* may disable, or Stop.                                                   *)
Hero(button) == screen = "dashboard" /\ button = IF shown THEN "stop" ELSE "start"

(* start_mining refuses, or is answered when the thread is, or is not,     *)
(* spawned.                                                                *)
start_mining ==
    /\ \/ /\ Hero("start")
          /\ \/ Idle /\ (running \/ ~unlocked) /\ UNCHANGED vars /\ Respond("start", "err")
             \/ StartCheck /\ Len(answers) < MaxCalls /\ UNCHANGED <<answers, events>>
       \/ StartCommit /\ UNCHANGED <<answers, events>>
       \/ StartSpawn /\ Respond("start", IF thread' = thread THEN "err" ELSE "on")
    /\ UNCHANGED <<disk, window>>

stop_mining ==
    /\ Hero("stop")
    /\ StopMining /\ Respond("stop", "off")
    /\ UNCHANGED <<disk, window>>

(* SendModal sends unless it is sending; send_sol and send_eqm answer with *)
(* a signature, or why not.  Opened again, it starts afresh.               *)
canSend == screen = "dashboard" /\ ~sending

Send ==
    /\ canSend
    /\ Idle /\ Respond("send", "done")
    /\ sending' = TRUE
    /\ UNCHANGED <<vars, disk, screen, mode, busy, shown>>

Reopen ==
    /\ screen = "dashboard" /\ sending
    /\ sending' = FALSE
    /\ UNCHANGED <<vars, disk, answers, events, screen, mode, busy, shown>>

(* The poll of the dashboard, on mount and every six seconds.              *)
Tick ==
    /\ screen = "dashboard"
    /\ \A i \in DOMAIN answers : answers[i].cmd # "tick"
    /\ Idle /\ Respond("tick", IF running THEN "on" ELSE "off")
    /\ UNCHANGED <<vars, disk, window>>

-----------------------------------------------------------------------------
(* The mining threads.                                                     *)

(* A step of a mining thread, with the status it emits.  A thread that     *)
(* fails to start says TRUE as well, before.                               *)
Emits(s) ==
    CASE thread[s] = "startup" /\ thread'[s] = "loop" -> <<TRUE>>
      [] thread'[s] = "ended" -> <<FALSE>>
      [] OTHER -> <<>>

Emitting(s) ==
    /\ events' = events \o Emits(s) /\ Len(events') <= MaxEvents
    /\ UNCHANGED <<disk, answers, window>>

-----------------------------------------------------------------------------
(* Answers and events reach the window.                                    *)

Fresh ==
    /\ mode' = "choose" /\ busy' = FALSE
    /\ shown' = FALSE /\ sending' = FALSE

(* The answers after which the window calls again.                         *)
Calls(c) ==
    \/ c.cmd = "status"
    \/ c.answer = "ok" /\ c.cmd \in {"create", "import", "unlock", "forget", "lock"}

(* A new screen mounts with fresh state; answers to the old one's calls    *)
(* find nobody, but the code after an await goes on, and may call again.   *)
Show(s) ==
    IF s = screen
    THEN answers' = Tail(answers) /\ UNCHANGED window
    ELSE /\ LET orphans == SelectSeq(Tail(answers), Calls)
            IN  answers' = [i \in DOMAIN orphans |-> [orphans[i] EXCEPT !.live = FALSE]]
         /\ screen' = s /\ Fresh

Then(c, cmd, a) ==
    Idle /\ answers' = Append(Tail(answers), [Answer(cmd, a) EXCEPT !.live = c.live])

(* What the code after the await calls: exportSecret or App's refresh.     *)
Follow(c) ==
    IF ~Calls(c) THEN answers' = Tail(answers)
    ELSE IF c.cmd = "create" THEN Then(c, "export", IF unlocked THEN "ok" ELSE "err")
    ELSE Then(c, "status", WalletStatus)

(* Mutant: the poll brings the statistics and leaves running to the events.*)
Running_from_events(c) ==
    shown' = IF c.live /\ c.cmd \in {"start", "stop"} /\ c.answer # "err"
             THEN c.answer = "on" ELSE shown

(* setRunning from start, stop and poll.                                   *)
Running(c) ==
    shown' = IF c.live /\ c.cmd \in {"start", "stop", "tick"} /\ c.answer # "err"
             THEN c.answer = "on" ELSE shown

(* "sent" or "failed", in whichever form is open by then.                  *)
Dialog(c) == sending' = (sending /\ ~(c.live /\ c.cmd = "send"))

(* A new wallet's secret is shown; the form is free again.                 *)
Form(c) ==
    /\ mode' = IF c.live /\ c.cmd = "export" /\ c.answer = "ok" THEN "reveal" ELSE mode
    /\ busy' = (busy /\ ~(/\ c.live /\ c.cmd \in {"create", "import", "unlock", "export"}
                         /\ ~(c.cmd = "create" /\ c.answer = "ok")))

Answered ==
    /\ answers # <<>>
    /\ LET c == Head(answers)
       IN  IF c.cmd = "status" THEN Show(c.answer)
           ELSE Follow(c) /\ Running(c) /\ Dialog(c) /\ Form(c) /\ UNCHANGED screen
    /\ UNCHANGED <<vars, disk, events>>

(* The dashboard's subscription; nobody else listens.                      *)
Event ==
    /\ events # <<>>
    /\ events' = Tail(events)
    /\ shown' = IF screen = "dashboard" THEN Head(events) ELSE shown
    /\ UNCHANGED <<vars, disk, answers, screen, mode, busy, sending>>

(* The user closes the application, or it crashes, and starts it again:    *)
(* the file is what is left.                                               *)
Restart ==
    /\ unlocked' = FALSE /\ running' = FALSE /\ command' = "none"
    /\ stop_flag' = None /\ stopped' = {}
    /\ thread' = [s \in Sessions |-> IF s <= sessions THEN "ended" ELSE "none"]
    /\ answers' = <<Answer("status", IF disk = "wallet" THEN "unlock" ELSE "setup")>>
    /\ events' = <<>>
    /\ screen' = "loading" /\ Fresh
    /\ UNCHANGED <<sessions, disk>>

-----------------------------------------------------------------------------

User ==
    \/ Choose \/ Back \/ create_wallet \/ import_wallet \/ Saved
    \/ unlock_wallet \/ forget_wallet \/ lock_wallet
    \/ start_mining \/ stop_mining \/ Send \/ Reopen

AppNext ==
    \/ User \/ Tick \/ Answered \/ Event \/ Restart
    \/ \E s \in Sessions : (Mining(s) \/ Panic(s)) /\ Emitting(s)

(* The main thread and the window's event loop run, the poll's timer fires *)
(* whatever else is called, and threads go on; the user need do nothing.   *)
AppFairness ==
    /\ WF_appVars(Starting /\ start_mining) /\ WF_appVars(Answered) /\ WF_appVars(Event)
    /\ SF_appVars(Tick)
    /\ \A s \in Sessions : WF_appVars(Mining(s) /\ Emitting(s))

AppSpec == AppInit /\ [][AppNext]_appVars /\ AppFairness

-----------------------------------------------------------------------------

(* The key that mines and signs is not only in memory: while one is in     *)
(* place there is a file, whatever saves failed and whatever the window    *)
(* and the user did out of turn (keystore.rs:235-319).  Not always a whole *)
(* one: between the answer of import_wallet and App's refresh the form can *)
(* be submitted again, and that save may fail half way.                    *)
UnlockedIsSaved == unlocked => disk # "none"

(* What the window shows comes round to what is, or the application is     *)
(* restarted: the screen to the wallet's state, whichever refreshes cross  *)
(* (the backup screen stays until its button is pressed), and the dashboard*)
(* to whether the backend mines, with events missed while it was not there,*)
(* events and answers that cross, sessions that die and sessions that      *)
(* outlive a lock.  Nor does its dialog stay at "sending".                 *)
Agrees ==
    /\ screen = WalletStatus \/ BackupScreen
    /\ screen = "dashboard" => shown = running /\ ~sending
WindowFollows == [](~Agrees => <>(Agrees \/ screen = "loading"))

=============================================================================
