------------------------------- MODULE Rooms --------------------------------
(***************************************************************************)
(* The room table of the server (src/server/room.rs), a map under one      *)
(* mutex.  Every operation below is one critical section.  Each room that  *)
(* is created gets a fresh broadcast channel and a fresh owner capability: *)
(* one number stands for both, so two rooms that carry the same name at    *)
(* different times are told apart by their channel.                        *)
(***************************************************************************)
EXTENDS ServerBase

CONSTANTS
  Creds,      \* the join credentials the clients derive from passwords
  NoRoom      \* what the table holds for a name that has no room

VARIABLES
  rooms,      \* room name -> RoomInfo or NoRoom
  nextChan    \* the next fresh channel and capability

RoomInfo ==
  [chan : Nat \ {NoChan}, cred : Creds, members : SUBSET Conns,
   owner : Conns \cup {NoConn}, capability : Nat]

ASSUME NoRoomAssumption == NoRoom \notin RoomInfo

RoomsTypeOK ==
  /\ rooms \in [RoomIds -> RoomInfo \cup {NoRoom}]
  /\ nextChan \in Nat \ {NoChan}

RoomsInit ==
  /\ rooms = [r \in RoomIds |-> NoRoom]
  /\ nextChan = 1

Exists(r) == rooms[r] # NoRoom

(* create_room: the creator becomes the only member and the owner. *)
CreateRoom(r, k, m) ==
  /\ ~Exists(r)
  /\ rooms' = [rooms EXCEPT ![r] =
       [chan |-> nextChan, cred |-> k, members |-> {m},
        owner |-> m, capability |-> nextChan]]
  /\ nextChan' = nextChan + 1

(* Mutant of CanJoin: no credential is compared. *)
CanJoinAnyway(r, k) == Exists(r)

CanJoin(r, k) == Exists(r) /\ rooms[r].cred = k

(* Mutant of WithMember: the insertion replaces the member map. *)
WithMemberAlone(r, m) == [rooms[r] EXCEPT !.members = {m}]

WithMember(r, m) == [rooms[r] EXCEPT !.members = @ \cup {m}]

(* join_room: the credential must be the one the creator gave. *)
JoinRoom(r, k, m) ==
  /\ CanJoin(r, k)
  /\ rooms' = [rooms EXCEPT ![r] = WithMember(r, m)]
  /\ UNCHANGED nextChan

(* add_invited_member: the room is looked up by its name alone. *)
AddInvitedMember(r, m) ==
  /\ Exists(r)
  /\ rooms' = [rooms EXCEPT ![r] = WithMember(r, m)]
  /\ UNCHANGED nextChan

(* Mutant of Disowned: the capability outlives the owner. *)
DisownedKeepingCapability(info, m) ==
  IF info.owner = m THEN [info EXCEPT !.owner = NoConn] ELSE info

Disowned(info, m) ==
  IF info.owner = m
  THEN [info EXCEPT !.owner = NoConn, !.capability = NoChan]
  ELSE info

WithoutMember(r, m) ==
  Disowned([rooms[r] EXCEPT !.members = @ \ {m}], m)

(* Mutants of RemoveMember: the room ends with its owner; the room stays   *)
(* when its last member goes.                                              *)
RemoveMemberOrOwnedRoom(r, m) ==
  /\ Exists(r)
  /\ rooms' = [rooms EXCEPT ![r] =
       IF rooms[r].owner = m THEN NoRoom ELSE WithoutMember(r, m)]
  /\ UNCHANGED nextChan

RemoveMemberOnly(r, m) ==
  /\ Exists(r)
  /\ rooms' = [rooms EXCEPT ![r] = WithoutMember(r, m)]
  /\ UNCHANGED nextChan

(* The critical section of RoomGuard::drop. *)
RemoveMember(r, m) ==
  /\ Exists(r)
  /\ rooms' = [rooms EXCEPT ![r] =
       IF WithoutMember(r, m).members = {} THEN NoRoom
                                           ELSE WithoutMember(r, m)]
  /\ UNCHANGED nextChan
=============================================================================
