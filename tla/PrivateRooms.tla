---------------------------- MODULE PrivateRooms ----------------------------
(***************************************************************************)
(* What the room model promises (docs/room-model-design.md, 1 and 7): each *)
(* room is a conversation of its own.  A turn reaches the conversation of  *)
(* its room and no other, and a room that this process has opened goes on  *)
(* where it was.  There is no agent loop to share, no queue, no file.      *)
(*                                                                         *)
(* One exception is the user's: a bot can be started with a conversation   *)
(* of another room (--resume), which is from then on its room's as well.   *)
(*                                                                         *)
(* 'event' is the last thing a user could see happen, so that a step that  *)
(* changes a conversation cannot pass for another one.                     *)
(***************************************************************************)
EXTENDS Naturals

CONSTANTS Rooms,  \* conversations
          Turns,  \* requests, each made once
          NoRoom  \* no room

VARIABLES conv,    \* the turns in the conversation of each room
          opened,  \* rooms opened by this process
          owner,   \* the rooms of each turn, none when it is not made yet
          event    \* [what, room, by] of the last visible step

private == <<conv, opened, owner, event>>

Owned(r) == {n \in Turns : r \in owner[n]}

\* A room opened before holds what it held; a room opened for the first time in
\* this process holds some earlier conversation of that room, or none.
Held(r) == IF r \in opened THEN {conv[r]} ELSE SUBSET Owned(r)

Shown(what, r, by) == event' = [what |-> what, room |-> r, by |-> by]

PrivateInit ==
  /\ conv = [r \in Rooms |-> {}]
  /\ \E r \in Rooms : opened = {r}
  /\ owner = [n \in Turns |-> {}]
  /\ event = [what |-> "start", room |-> NoRoom, by |-> 0]

Say(r, n) ==
  /\ owner[n] = {}
  /\ owner' = [owner EXCEPT ![n] = {r}]
  /\ \E before \in Held(r) : conv' = [conv EXCEPT ![r] = before \cup {n}]
  /\ opened' = opened \cup {r}
  /\ Shown("say", r, n)

Clear(r, n) ==
  /\ conv' = [conv EXCEPT ![r] = {}]
  /\ opened' = opened \cup {r}
  /\ Shown("clear", r, n)
  /\ UNCHANGED owner

\* A command that only shows or enters the room.
Visit(r, n) ==
  /\ \E before \in Held(r) : conv' = [conv EXCEPT ![r] = before]
  /\ opened' = opened \cup {r}
  /\ Shown("visit", r, n)
  /\ UNCHANGED owner

\* The user asks for an earlier conversation of the room.
Reopen(r, n) ==
  /\ \E turns \in SUBSET Owned(r) : conv' = [conv EXCEPT ![r] = turns]
  /\ opened' = opened \cup {r}
  /\ Shown("resume", r, n)
  /\ UNCHANGED owner

NewProcess(r) ==
  /\ \E turns \in SUBSET Owned(r) :
       conv' = [s \in Rooms |-> IF s = r THEN turns ELSE {}]
  /\ opened' = {r}
  /\ Shown("restart", r, 0)
  /\ UNCHANGED owner

\* A new process starts in r with a conversation of room q.
Adopt(r, q) ==
  /\ \E turns \in SUBSET Owned(q) :
       /\ conv' = [s \in Rooms |-> IF s = r THEN turns ELSE {}]
       /\ owner' = [n \in Turns |-> IF n \in turns THEN owner[n] \cup {r} ELSE owner[n]]
  /\ opened' = {r}
  /\ Shown("adopt", r, 0)

PrivateNext ==
  \/ \E r \in Rooms, n \in Turns :
       Say(r, n) \/ Clear(r, n) \/ Visit(r, n) \/ Reopen(r, n)
  \/ \E r \in Rooms : NewProcess(r) \/ \E q \in Rooms : Adopt(r, q)

PrivateSpec == PrivateInit /\ [][PrivateNext]_private
=============================================================================
