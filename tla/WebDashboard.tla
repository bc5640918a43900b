---------------------------- MODULE WebDashboard ----------------------------
(***************************************************************************)
(* The mining page on top of its wallet: the dashboard that the gate       *)
(* mounts when the wallet is unlocked (src/clients/website/src/components/ *)
(* MineDashboard.tsx), the engines it starts (at their interface; WebEngine*)
(* has their inside) and the dialog that sends SOL or EQM                  *)
(* (wallet/SendModal.tsx).                                                 *)
(*                                                                         *)
(* Locking unmounts the dashboard.  What it had in flight goes on: an      *)
(* engine in the middle of a submission, a transfer between two awaits.    *)
(* Both captured the wallet's signTransaction when they began, and the     *)
(* payer's key with it.  Of what is read from the chain only whether it    *)
(* enables Start is kept.                                                  *)
(***************************************************************************)
EXTENDS WebWallet

CONSTANTS
    Engines,   \* bound: sessions running or with a submission in flight
    Sends      \* bound: presses of Send

ASSUME DashboardAssumption == None \notin Engines

VARIABLES
    startable, \* config.miningOpen, and not too little SOL, as last read
    running, handle,       \* is there a session; minerHandle.current
    engines,   \* the engines started so far
    modal,     \* SendModal: open, status, and the transfer it speaks of
    sends      \* the transfers begun so far

board == <<startable, running, handle, modal>>
dvars == <<board, engines, sends>>
vars  == <<wvars, dvars>>

NoEngine == [on |-> FALSE, tx |-> "none"]
NoSend   == [at |-> "unused", wire |-> "none", key |-> None, signer |-> None, here |-> FALSE]
Blank    == [open |-> FALSE, status |-> "idle", of |-> None]

DInit ==
    /\ startable = FALSE /\ running = FALSE /\ handle = None
    /\ engines = [e \in Engines |-> NoEngine]
    /\ modal = Blank
    /\ sends = [s \in Sends |-> NoSend]

Init == WInit /\ DInit

Mounted == status = "unlocked"

-----------------------------------------------------------------------------
(* Mining.                                                                 *)

(* fetchConfig, the token account and the balance answered, or onConfig.   *)
Refresh ==
    /\ Mounted
    /\ startable' \in BOOLEAN
    /\ UNCHANGED <<wvars, running, handle, modal, engines, sends>>

(* A transfer was sent: the balances are read again.                       *)
onSent ==
    /\ Mounted
    /\ \E s \in Sends : sends[s].here /\ sends[s].at = "done" /\ sends[s].wire = "landed"
    /\ startable' \in BOOLEAN
    /\ UNCHANGED <<wvars, running, handle, modal, engines, sends>>

(* One of two buttons is on the screen, and Start may be disabled.         *)
Offers(button) ==
    /\ Mounted
    /\ IF running THEN button = "Stop" ELSE button = "Start mining" /\ startable

Start(e) ==
    /\ Offers("Start mining") /\ engines[e] = NoEngine
    /\ running' = TRUE /\ handle' = e
    /\ engines' = [engines EXCEPT ![e].on = TRUE]
    /\ UNCHANGED <<wvars, startable, modal, sends>>

Halted(e) ==
    [x \in Engines |-> IF x = e THEN [engines[x] EXCEPT !.on = FALSE] ELSE engines[x]]

Stop ==
    /\ Offers("Stop")
    /\ running' = FALSE /\ handle' = None
    /\ engines' = Halted(handle)
    /\ UNCHANGED <<wvars, startable, modal, sends>>

(* The engine's submission: a solution below the target, found before it   *)
(* was stopped; signing, by the function of the render that started it,    *)
(* whatever the wallet is now; and its outcome.                            *)
Found(e) ==
    /\ engines[e].on /\ engines[e].tx = "none"
    /\ engines' = [engines EXCEPT ![e].tx = "building"]
    /\ UNCHANGED <<wvars, board, sends>>
Signed(e) ==
    /\ engines[e].tx = "building"
    /\ engines' = [engines EXCEPT ![e].tx = "sent"]
    /\ UNCHANGED <<wvars, board, sends>>
Settled(e) ==
    /\ engines[e].tx \in {"building", "sent"}
    /\ engines' = [engines EXCEPT ![e].tx = "none"]
    /\ UNCHANGED <<wvars, board, sends>>

Mining == Refresh \/ onSent \/ Stop
    \/ \E e \in Engines : Start(e) \/ Found(e) \/ Signed(e) \/ Settled(e)

-----------------------------------------------------------------------------
(* Sending.                                                                *)

(* The menu's Send item; the dialog resets itself each time it opens.      *)
OpenSend ==
    /\ At("menu-open") /\ Step("menu-closed")
    /\ modal' = IF modal.open THEN modal ELSE [Blank EXCEPT !.open = TRUE]
    /\ UNCHANGED <<disk, provider, jobs, made, saved, startable, running, handle,
                   engines, sends>>

CloseSend ==
    /\ Mounted /\ modal.open
    /\ modal' = [modal EXCEPT !.open = FALSE]
    /\ UNCHANGED <<wvars, startable, running, handle, engines, sends>>

(* That recipient and amount are valid is up to the user.                  *)
canSend == Mounted /\ modal.open /\ modal.status # "sending"

PressSend(s) ==
    /\ canSend /\ sends[s] = NoSend
    /\ sends' = [sends EXCEPT ![s] = [NoSend EXCEPT !.at = "building", !.key = loaded,
                                                    !.here = TRUE]]
    /\ modal' = [modal EXCEPT !.status = "sending", !.of = s]
    /\ UNCHANGED <<wvars, startable, running, handle, engines>>

(* send() ends with a status, which the dialog shows if it is still the    *)
(* one that was mounted, be it open or closed.                             *)
Conclude(s, how) ==
    /\ sends' = [sends EXCEPT ![s].at = "done"]
    /\ modal' = IF sends[s].here THEN [modal EXCEPT !.status = how, !.of = s] ELSE modal
    /\ UNCHANGED <<wvars, startable, running, handle, engines>>

(* Up to sendRawTransaction: signed and sent, or an await threw, the last  *)
(* of them perhaps after the transaction had gone out.                     *)
SendTx(s) ==
    /\ sends[s].at = "building"
    /\ sends' = [sends EXCEPT ![s].at = "polling", ![s].wire = "sent",
                              ![s].signer = sends[s].key]
    /\ UNCHANGED <<wvars, board, engines>>
SendThrows(s) ==
    \/ sends[s].at = "building" /\ Conclude(s, "failed")
    \/ /\ sends[s].at = "building"
       /\ sends' = [sends EXCEPT ![s].at = "done", ![s].wire = "sent",
                                 ![s].signer = sends[s].key]
       /\ modal' = IF sends[s].here THEN [modal EXCEPT !.status = "failed", !.of = s]
                   ELSE modal
       /\ UNCHANGED <<wvars, startable, running, handle, engines>>

(* Mutant: what has not been refused within the minute counts as sent.     *)
Polled_optimist(s) ==
    /\ sends[s].at = "polling"
    /\ \/ sends[s].wire = "rejected" /\ Conclude(s, "failed")
       \/ sends[s].wire # "rejected" /\ Conclude(s, "sent")
(* The poll of the signature's status: an answer, or sixty seconds without.*)
Polled(s) ==
    /\ sends[s].at = "polling"
    /\ \/ sends[s].wire = "landed" /\ Conclude(s, "sent")
       \/ sends[s].wire = "rejected" /\ Conclude(s, "failed")
       \/ Conclude(s, "lost")

(* The cluster.                                                            *)
Lands(s) ==
    /\ sends[s].wire = "sent"
    /\ \E w \in {"landed", "rejected"} : sends' = [sends EXCEPT ![s].wire = w]
    /\ UNCHANGED <<wvars, board, engines>>

Transfer(s) == SendTx(s) \/ SendThrows(s) \/ Polled(s)

Sending == OpenSend \/ CloseSend \/ \E s \in Sends : PressSend(s) \/ Transfer(s) \/ Lands(s)

-----------------------------------------------------------------------------
(* The wallet moves; leaving "unlocked" unmounts the dashboard, a reload   *)
(* ends every script.                                                      *)

(* Mutant: the dashboard's cleanup effect is missing.                      *)
Unmount_without_cleanup ==
    /\ startable' = FALSE /\ running' = FALSE /\ handle' = None /\ modal' = Blank
    /\ UNCHANGED engines
    /\ sends' = [s \in Sends |-> [sends[s] EXCEPT !.here = FALSE]]

Unmount ==
    /\ startable' = FALSE /\ running' = FALSE /\ handle' = None /\ modal' = Blank
    /\ engines' =
          IF status' = "loading"
          THEN [e \in Engines |-> NoEngine]
          ELSE Halted(handle)
    /\ sends' = [s \in Sends |->
          [sends[s] EXCEPT !.here = FALSE,
                           !.at = IF status' = "loading" /\ @ # "unused" THEN "done" ELSE @]]

Wallet ==
    /\ WNext
    /\ IF status' # "unlocked" THEN Unmount ELSE UNCHANGED dvars

Next == Wallet \/ Mining \/ Sending

Spec == Init /\ [][Next]_vars

-----------------------------------------------------------------------------

(* At most one engine runs, the one whose Stop button is on the screen:    *)
(* whatever order of starting, stopping, locking, forgetting, late         *)
(* unlocking and reloading, no engine goes on where nobody can stop it.    *)
OneEngine ==
    /\ {e \in Engines : engines[e].on} = {handle} \ {None}
    /\ running <=> handle # None
    /\ running => Mounted

(* The panel at the foot of the dialog.                                    *)
Shows(what) == modal.open /\ modal.status = what

(* "Sent" is shown for a transfer that landed, also when the dialog was    *)
(* closed and opened again over an earlier transfer in flight; and         *)
(* "Sending" is shown only while there is one that will change it, so that *)
(* the button cannot stay disabled for good.                               *)
DialogIsTrue ==
    /\ Shows("sent") => sends[modal.of].wire = "landed"
    /\ modal.status = "sending" =>
          \E s \in Sends : sends[s].here /\ sends[s].at \in {"building", "polling"}

(* wallet-context.tsx:194 refuses to sign with "wallet is locked" when no  *)
(* key is loaded.                                                          *)
SignsOnlyUnlocked ==
    [][\A s \in Sends : sends'[s].signer # sends[s].signer /\ sends'[s].signer # None
           => loaded # None]_vars

=============================================================================
