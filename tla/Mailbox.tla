------------------------------ MODULE Mailbox ------------------------------
(***************************************************************************)
(* Commands to the firmware through the mailbox of a function              *)
(* (src/cxgb4/t4_hw.c, t4_wr_mbox_meat_timeout).  A caller queues on       *)
(* adap->mlist; the first of the queue has the right to the mailbox.  It   *)
(* reads who owns the mailbox, writes its command, gives the mailbox to    *)
(* the firmware and polls until it has it back with a reply.  Callers give *)
(* up their place or the command by time; the firmware may answer late, to *)
(* nobody, may hand the mailbox back without a reply, or may die.          *)
(***************************************************************************)
EXTENDS Naturals, Sequences, SequencesExt

CONSTANTS Callers,
          MaxCommands  \* bound: commands issued

ASSUME MailboxAssumption == MaxCommands \in Nat

VARIABLES mlist,  \* the callers in the queue, the first one first
          cpc,    \* what a caller is doing
          cmd,    \* the number of its command, for each caller
          ret,    \* what its last command returned
          owner, msgvalid, \* the control register
          data,   \* the data registers: a command or the reply to it
          fwdead, \* PCIE_FW_ERR
          ncmds
mbxVars == <<mlist, cpc, cmd, ret, owner, msgvalid, data, fwdead, ncmds>>

Error(e) == [is |-> e, of |-> 0]

MbxInit ==
  /\ mlist = <<>>
  /\ cpc = [c \in Callers |-> "idle"]
  /\ cmd = [c \in Callers |-> 0] /\ ret = [c \in Callers |-> Error("none")]
  /\ owner = "NONE" /\ msgvalid = FALSE
  /\ data = [is |-> "command", of |-> 0]
  /\ fwdead = FALSE /\ ncmds = 0

Step(c, l) == cpc' = [cpc EXCEPT ![c] = l]
Return(c, r) == ret' = [ret EXCEPT ![c] = r]
LeaveList_First(c, r) == \* mutant
  /\ mlist' = Tail(mlist)
  /\ Step(c, "idle")
  /\ Return(c, r)
\* list_del of the caller's entry, under mbox_lock, and return.
LeaveList(c, r) ==
  /\ \E i \in 1..Len(mlist) : mlist[i] = c /\ mlist' = RemoveAt(mlist, i)
  /\ Step(c, "idle")
  /\ Return(c, r)
mailboxVars == <<owner, msgvalid, data>>

\* Queue on the list.
Issue(c) ==
  /\ cpc[c] = "idle" /\ ncmds < MaxCommands
  /\ ncmds' = ncmds + 1
  /\ cmd' = [cmd EXCEPT ![c] = ncmds + 1]
  /\ Return(c, Error("none"))
  /\ mlist' = Append(mlist, c)
  /\ Step(c, "queued")
  /\ UNCHANGED <<mailboxVars, fwdead>>

\* Waited too long for the head of the list, or the firmware is dead.
GiveUp(c) ==
  /\ cpc[c] = "queued"
  /\ LeaveList(c, Error(IF fwdead THEN "ENXIO" ELSE "EBUSY"))
  /\ UNCHANGED <<cmd, mailboxVars, fwdead, ncmds>>

AtHead_Any(c) == \* mutant
  /\ cpc[c] = "queued" /\ ~fwdead
  /\ Step(c, "head")
  /\ UNCHANGED <<mlist, cmd, ret, mailboxVars, fwdead, ncmds>>

AtHead(c) ==
  /\ cpc[c] = "queued" /\ ~fwdead /\ Head(mlist) = c
  /\ Step(c, "head")
  /\ UNCHANGED <<mlist, cmd, ret, mailboxVars, fwdead, ncmds>>

\* A read of the control register gives a mailbox that nobody owns to the
\* reader; then the command goes into it.  The firmware may be busy with an
\* earlier command, whose caller gave up.
Submit(c) ==
  /\ cpc[c] = "head" /\ owner \in {"NONE", "DRV"}
  /\ data' = [is |-> "command", of |-> cmd[c]]
  /\ owner' = "FW" /\ msgvalid' = TRUE
  /\ Step(c, "sent")
  /\ UNCHANGED <<mlist, cmd, ret, fwdead, ncmds>>

Refused(c) ==
  /\ cpc[c] = "head" /\ owner = "FW"
  /\ LeaveList(c, Error("EBUSY"))
  /\ UNCHANGED <<cmd, mailboxVars, fwdead, ncmds>>

\* One look at the control register while the command is out.
Poll(c) ==
  /\ cpc[c] = "sent" /\ owner = "DRV" /\ ~fwdead
  /\ IF msgvalid
     THEN Step(c, "done") /\ Return(c, data)
     ELSE UNCHANGED <<cpc, ret>>
  /\ owner' = "NONE" /\ msgvalid' = FALSE
  /\ UNCHANGED <<mlist, cmd, data, fwdead, ncmds>>

\* The reply has been taken and the mailbox is free: leave the list.
Finish(c) ==
  /\ cpc[c] = "done"
  /\ LeaveList(c, ret[c])
  /\ UNCHANGED <<cmd, mailboxVars, fwdead, ncmds>>

TimedOut_KeepsPlace(c) == \* mutant
  /\ cpc[c] = "sent"
  /\ Step(c, "idle")
  /\ Return(c, Error(IF fwdead THEN "ENXIO" ELSE "ETIMEDOUT"))
  /\ UNCHANGED <<mlist, cmd, mailboxVars, fwdead, ncmds>>

\* The command's time is over, or the firmware is dead; t4_fatal_err.  The
\* mailbox is left as it is.
TimedOut(c) ==
  /\ cpc[c] = "sent"
  /\ LeaveList(c, Error(IF fwdead THEN "ENXIO" ELSE "ETIMEDOUT"))
  /\ UNCHANGED <<cmd, mailboxVars, fwdead, ncmds>>

\* The firmware replies, or hands the mailbox back without a reply, or dies.
FwReply ==
  /\ owner = "FW" /\ ~fwdead
  /\ \E is \in {"reply", "assertion"} : data' = [is |-> is, of |-> data.of]
  /\ owner' = "DRV" /\ msgvalid' = TRUE
  /\ UNCHANGED <<mlist, cpc, cmd, ret, fwdead, ncmds>>
FwDrop ==
  /\ owner = "FW" /\ ~fwdead
  /\ owner' = "DRV" /\ msgvalid' = FALSE
  /\ UNCHANGED <<mlist, cpc, cmd, ret, data, fwdead, ncmds>>
FwDies == ~fwdead /\ fwdead' = TRUE /\ UNCHANGED <<mlist, cpc, cmd, ret, mailboxVars, ncmds>>

MbxNext == \/ \E c \in Callers : \/ Issue(c) \/ GiveUp(c) \/ AtHead(c) \/ Submit(c)
                                 \/ Refused(c) \/ Poll(c) \/ Finish(c) \/ TimedOut(c)
           \/ FwReply \/ FwDrop \/ FwDies

\* Each caller goes on; time passes for the command that is out.  A caller need
\* not give up its place in the list, unless the firmware is dead.
MbxFairness ==
  \A c \in Callers : /\ WF_mbxVars(AtHead(c)) /\ WF_mbxVars(Submit(c))
                     /\ WF_mbxVars(Refused(c)) /\ WF_mbxVars(Poll(c))
                     /\ WF_mbxVars(Finish(c)) /\ WF_mbxVars(TimedOut(c))
                     /\ WF_mbxVars(fwdead /\ GiveUp(c))
MbxSpec == MbxInit /\ [][MbxNext]_mbxVars /\ MbxFairness
----------------------------------------------------------------------------
(* Properties                                                              *)

UsesMailbox(c) == cpc[c] \in {"head", "sent", "done"}

\* The list is a lock: one caller at most is past its head, the first one, and
\* a caller is on the list as long as it is in the function, so that nobody
\* writes to the mailbox under another's command (adap->mlist).
MailboxExclusive ==
  /\ \A c \in Callers : UsesMailbox(c) => Head(mlist) = c
  /\ \A c \in Callers : cpc[c] # "idle" <=> \E i \in 1..Len(mlist) : mlist[i] = c
  /\ \A c \in Callers : cpc[c] = "sent" /\ owner # "NONE" => data.of = cmd[c]

\* What a caller takes for the reply is the reply to its own command, also
\* when commands before it timed out and were answered late.
ReplyIsOwn ==
  \A c \in Callers : ret[c].is # "command" /\ (ret[c].of # 0 => ret[c].of = cmd[c])

\* A command has the mailbox to itself and returns its own answer
\* (t4_wr_mbox_meat_timeout).
MailboxSound == MailboxExclusive /\ ReplyIsOwn

\* Every caller returns, each in its turn, although only the caller with a
\* command out counts on time (t4_wr_mbox_meat_timeout).
CommandsEnd == \A c \in Callers : []<>(cpc[c] = "idle")
==========================================================================
