----------------------------- MODULE ThreadFlags -----------------------------
(***************************************************************************)
(* Thread flags, furi/core/thread.c: other threads set bits in a task      *)
(* notification value of FreeRTOS, their owner waits for them and clears   *)
(* them.  The kernel keeps next to the value whether a notification was    *)
(* received since the last wait; a wait only looks at the value when that  *)
(* is so.                                                                  *)
(*                                                                         *)
(* Grain of atomicity: a step is one call of the kernel.                   *)
(***************************************************************************)
EXTENDS FiniteSets

CONSTANTS Flags,    \* the bits in use
          Setters,  \* the threads that set flags of the owner
          Waits,    \* the calls of furi_thread_flags_wait the owner makes
          Clears    \* the masks of furi_thread_flags_clear the owner uses

Timeouts == {"Zero", "Finite", "Forever"}

(* A call of furi_thread_flags_wait: the mask, FuriFlagWaitAll,            *)
(* FuriFlagNoClear and the timeout.                                        *)
WaitTypes == [flags : SUBSET Flags, all : BOOLEAN, no_clear : BOOLEAN, timeout : Timeouts]

ASSUME ThreadFlagsAssumption ==
    /\ Waits \subseteq WaitTypes
    /\ Clears \subseteq SUBSET Flags

VARIABLES
    value,    \* ulNotifiedValue[THREAD_NOTIFY_INDEX]
    notify,   \* ucNotifyState[THREAD_NOTIFY_INDEX]
    setting,  \* per setter: the bits of its call that has not returned yet
    pc,       \* where the owner is
    call,     \* the wait in progress
    rflags,   \* its local rflags
    cflags,   \* the value read by a clear in progress
    mask,     \* the mask of that clear
    unseen,   \* history: bits set and neither returned by a wait nor cleared
    dropped,  \* history: bits wiped by a clear of others, or given up by a wait for all
    unnoticed \* history: bits a wait left in the value when it took the notification

flagsVars ==
    <<value, notify, setting, pc, call, rflags, cflags, mask, unseen, dropped, unnoticed>>

NotifyStates == {"NotWaiting", "Waiting", "Received"}
NoCall == [flags |-> {}, all |-> FALSE, no_clear |-> FALSE, timeout |-> "Zero"]

FlagsTypeOK ==
    /\ value \subseteq Flags
    /\ notify \in NotifyStates
    /\ setting \in [Setters -> SUBSET Flags]
    /\ pc \in {"user", "wait", "blocked", "clear"}
    /\ call \in WaitTypes
    /\ rflags \subseteq Flags
    /\ cflags \subseteq Flags
    /\ mask \subseteq Flags
    /\ unseen \subseteq Flags
    /\ dropped \subseteq Flags
    /\ unnoticed \subseteq Flags
    /\ pc = "blocked" => notify \in {"Waiting", "Received"}

FlagsInit ==
    /\ value = {} /\ notify = "NotWaiting"
    /\ setting = [t \in Setters |-> {}]
    /\ pc = "user" /\ call = NoCall /\ rflags = {}
    /\ cflags = {} /\ mask = {}
    /\ unseen = {} /\ dropped = {} /\ unnoticed = {}

-----------------------------------------------------------------------------
(* The kernel marks the notification as received, so that the next wait    *)
(* looks at the whole value.                                               *)
Notified == notify' = "Received" /\ unnoticed' = {}

(* Mutant: the flags take the place of the value (no eSetBits).            *)
SetBits_Overwrites(t, flags) ==
    /\ setting[t] = {}
    /\ setting' = [setting EXCEPT ![t] = flags]
    /\ value' = flags /\ Notified
    /\ unseen' = unseen \cup flags /\ dropped' = dropped \ flags
    /\ UNCHANGED <<pc, call, rflags, cflags, mask>>

(* furi_thread_flags_set: xTaskNotifyIndexed sets the bits ...             *)
SetBits(t, flags) ==
    /\ setting[t] = {}
    /\ setting' = [setting EXCEPT ![t] = flags]
    /\ value' = value \cup flags /\ Notified
    /\ unseen' = unseen \cup flags /\ dropped' = dropped \ flags
    /\ UNCHANGED <<pc, call, rflags, cflags, mask>>

(* ... and xTaskNotifyAndQueryIndexed reads the value to return, which     *)
(* marks a notification as received once more.                             *)
SetQuery(t) ==
    /\ setting[t] # {}
    /\ setting' = [setting EXCEPT ![t] = {}]
    /\ Notified
    /\ UNCHANGED <<value, pc, call, rflags, cflags, mask, unseen, dropped>>

(* furi_thread_flags_clear: the value is queried, then overwritten; a flag *)
(* set in between is wiped with it, whatever the mask.                     *)
ClearQuery(flags) ==
    /\ pc = "user"
    /\ cflags' = value /\ mask' = flags
    /\ Notified /\ pc' = "clear"
    /\ UNCHANGED <<value, setting, call, rflags, unseen, dropped>>

ClearOverwrite ==
    /\ pc = "clear"
    /\ value' = cflags \ mask
    /\ Notified
    /\ unseen' = unseen \ mask /\ dropped' = dropped \cup (value \ (cflags \cup mask))
    /\ cflags' = {} /\ mask' = {} /\ pc' = "user"
    /\ UNCHANGED <<setting, call, rflags>>

(* furi_thread_flags_get                                                   *)
GetFlags ==
    /\ pc = "user"
    /\ Notified
    /\ UNCHANGED <<value, setting, pc, call, rflags, cflags, mask, unseen, dropped>>

-----------------------------------------------------------------------------
(* furi_thread_flags_wait                                                  *)

Wait(w) ==
    /\ pc = "user"
    /\ call' = w /\ rflags' = {} /\ pc' = "wait"
    /\ UNCHANGED <<value, notify, setting, cflags, mask, unseen, dropped, unnoticed>>

(* xTaskNotifyWaitIndexed finds no notification and marks the task waiting.*)
Block ==
    /\ pc = "wait" /\ notify # "Received"
    /\ notify' = "Waiting" /\ pc' = "blocked"
    /\ UNCHANGED <<value, setting, call, rflags, cflags, mask, unseen, dropped, unnoticed>>

(* Mutant: every wait is a wait for all.                                   *)
Satisfied_All(w, flags) == w.flags \subseteq flags

(* The flags of the call are there.                                        *)
Satisfied(w, flags) ==
    IF w.all THEN w.flags \subseteq flags ELSE w.flags \cap flags # {}

(* What the wait in progress received and will return.                     *)
Held == IF pc \in {"wait", "blocked"} THEN rflags \cap call.flags ELSE {}

(* tout is decremented by the time that passed, FuriWaitForever too: from  *)
(* then on the wait has an end.                                            *)
UpdateTimeout ==
    \/ UNCHANGED call
    \/ call.timeout = "Forever" /\ call' = [call EXCEPT !.timeout = "Finite"]

(* It returns the value, clears the bits of the mask on exit and forgets   *)
(* that a notification was received; the call is done when its flags are   *)
(* there, fails at once with a zero timeout, and waits again otherwise.    *)
Take ==
    /\ pc \in {"wait", "blocked"} /\ notify = "Received"
    /\ LET received == (rflags \cap call.flags) \cup value
           done     == Satisfied(call, received)
           fails    == ~done /\ call.timeout = "Zero"
       IN  /\ pc' = IF done \/ fails THEN "user" ELSE "wait"
           /\ rflags' = received
           /\ unseen' = IF done THEN unseen \ received ELSE unseen
           /\ dropped' = IF fails THEN dropped \cup (received \cap call.flags) ELSE dropped
           /\ IF done THEN UNCHANGED call ELSE UpdateTimeout
    /\ value' = IF call.no_clear THEN value ELSE value \ call.flags
    /\ notify' = "NotWaiting" /\ unnoticed' = value'
    /\ UNCHANGED <<setting, cflags, mask>>

(* It times out: an error is returned, whatever was received so far.       *)
TimeOut ==
    /\ pc = "blocked" /\ notify = "Waiting" /\ call.timeout # "Forever"
    /\ notify' = "NotWaiting" /\ pc' = "user"
    /\ dropped' = dropped \cup Held
    /\ UNCHANGED <<value, setting, call, rflags, cflags, mask, unseen, unnoticed>>

-----------------------------------------------------------------------------
SetterNext(t) == SetQuery(t) \/ \E flags \in SUBSET Flags \ {{}} : SetBits(t, flags)

WaitNext == Block \/ Take \/ TimeOut

FlagsOwnerNext ==
    \/ WaitNext \/ (\E w \in Waits : Wait(w))
    \/ ClearOverwrite \/ (\E flags \in Clears : ClearQuery(flags))
    \/ GetFlags

FlagsNext == FlagsOwnerNext \/ \E t \in Setters : SetterNext(t)

FlagsSpec == FlagsInit /\ [][FlagsNext]_flagsVars

(* The owner of a wait is scheduled when the kernel has unblocked it.      *)
FlagsFairSpec == FlagsSpec /\ WF_flagsVars(Block) /\ WF_flagsVars(Take)

-----------------------------------------------------------------------------
(* Properties                                                              *)

(* A flag that was set stays in the value, or with the wait that received  *)
(* it, until a wait returns it or a clear with that flag in its mask       *)
(* removes it (thread.h:423 "bitmask of thread flags to clear").  The code *)
(* keeps this only for services that never clear some flags of several.    *)
FlagsNotLost == unseen \subseteq value \cup Held

(* What the code keeps in any use: a flag that was set is lost in two ways *)
(* only, when it arrives between the query and the overwrite of a clear of *)
(* other flags (thread.c:523, :528), or when a wait for all of several     *)
(* flags received it and gave up.                                          *)
FlagsAccounted == unseen \subseteq value \cup Held \cup dropped

(* thread.h:435 "Wait for some thread flags to be set": the owner is not   *)
(* blocked by the kernel while a flag it waits for is set.  The code       *)
(* keeps this only for services that wait for the same flags at every call.*)
BlockedOnlyWithoutFlags ==
    pc = "blocked" /\ notify = "Waiting" => call.flags \cap value = {}

(* What the code keeps in any use: a wait is blocked on a flag that is set *)
(* only when an earlier wait, for other flags or with FuriFlagNoClear,     *)
(* took the notification of that flag and left it (thread.c:581).          *)
BlockedOnlyUnnoticed ==
    pc = "blocked" /\ notify = "Waiting" => call.flags \cap value \subseteq unnoticed

(* Whatever waits and clears the owner uses, a flag that was set is found, *)
(* but for the flags lost in an overwrite or with a wait that gave up, and *)
(* those an earlier wait left unnoticed.                                   *)
FlagsSound == FlagsTypeOK /\ FlagsAccounted /\ BlockedOnlyUnnoticed

(* A flag that is set ends a wait for it that has no timeout, unless an    *)
(* earlier wait left it unnoticed.                                         *)
SetFlagEndsWait ==
    \A f \in Flags :
        (pc \in {"wait", "blocked"} /\ ~call.all /\ f \in call.flags /\ f \in value \ unnoticed)
            ~> pc = "user"
=============================================================================
