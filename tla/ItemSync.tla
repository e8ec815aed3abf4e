------------------------------- MODULE ItemSync -------------------------------
(***************************************************************************)
(* Items that lie on the floors of levels, and the commands that move them *)
(* (msg.cpp, inv.cpp, the item records of items.cpp).  Every program keeps *)
(* the floor of the level it is on, and the changes to every level (delta) *)
(* for programs that enter it.  Who wants an item asks for it; the owner   *)
(* of the level, the lowest player on it, grants it to one of them with    *)
(* CMD_GETITEM, and all programs take it from their floor.  What a player  *)
(* drops is placed by all programs when they handle CMD_PUTITEM.           *)
(*                                                                         *)
(* Abstractions.  Positions are left out: an item is found by its key (the *)
(* seed, index and creation flags), which differs between an item that     *)
(* the level was generated with (CF_PREGEN) and the same item once it was  *)
(* picked up.  All commands here have high priority: they pass the TCP     *)
(* server, which puts those of all players in one order.  A sender handles *)
(* its own at once.  Floors and deltas do not run full.  Gold, which       *)
(* merges, quest items, and the commands for picking up into the inventory *)
(* and for what monsters drop are left out, and so are players that join   *)
(* or leave the game (PlayerInfo).                                         *)
(***************************************************************************)
EXTENDS Integers, Sequences, FiniteSets

CONSTANTS
    N,            \* number of players
    Levels,
    Items,
    Home,         \* the level that the items are generated on
    MaxDeeds      \* bound on what players do: requests, drops, changes of level

ASSUME ConstantsAssumption ==
    /\ N \in Nat \ {0}
    /\ Home \in Levels
    /\ MaxDeeds \in Nat

Programs == 0 .. N - 1

Keys == [item : Items, pregen : BOOLEAN]
None == [item |-> 0, pregen |-> FALSE]
Pregen(item) == [item |-> item, pregen |-> TRUE]
Loose(key) == [key EXCEPT !.pregen = FALSE]

DeltaStates == {"CMD_INVALID", "FloorItem", "PickedUpItem", "DroppedItem"}

\* TCmdGItem and TCmdPItem; bMaster and bPnum matter for the former, level is bLevel or
\* the new level of a player.
Command(bCmd, key, bMaster, bPnum, level) ==
    [bCmd |-> bCmd, key |-> key, bMaster |-> bMaster, bPnum |-> bPnum, level |-> level]

Commands ==
    [bCmd : {"CMD_REQUESTGITEM", "CMD_GETITEM", "CMD_ITEMEXTRA", "CMD_PUTITEM",
             "CMD_SYNCPUTITEM", "CMD_NEWLVL", "CMD_PLAYER_JOINLEVEL"},
     key : Keys \cup {None}, bMaster : Programs, bPnum : Programs, level : Levels]

VARIABLES
    plrlevel,        \* of each player as each program knows it
    _pLvlChanging,   \* likewise
    loading,         \* the programs that load a level and handle no commands
    floor,           \* how often each key is on the floor of a program's level
    requested,       \* the keys on the floor whose _iRequest is set
    delta,           \* of each program, level and key
    itemrecord,      \* keys that a program granted a short while ago
    HoldItem,        \* what each player has in hand
    ItemLimbo,       \* what each player dropped last
    TimedMsgList,    \* commands that each program tries again
    message_queue,   \* commands that each program will handle, and their senders
    deeds,           \* number of them so far
    astray        \* history: items that an answer about went astray

places == <<plrlevel, _pLvlChanging, loading>>
vars == <<places, floor, requested, delta, itemrecord, HoldItem, ItemLimbo,
          TimedMsgList, message_queue, deeds, astray>>

TypeOK ==
    /\ plrlevel \in [Programs -> [Programs -> Levels]]
    /\ _pLvlChanging \in [Programs -> [Programs -> BOOLEAN]]
    /\ loading \in SUBSET Programs
    /\ floor \in [Programs -> [Keys -> Nat]]
    /\ requested \in [Programs -> SUBSET Keys]
    /\ delta \in [Programs -> [Levels -> [Keys -> DeltaStates]]]
    /\ itemrecord \in [Programs -> SUBSET Keys]
    /\ HoldItem \in [Programs -> Keys \cup {None}]
    /\ ItemLimbo \in [Programs -> Keys \cup {None}]
    /\ TimedMsgList \in [Programs -> Seq(Commands)]
    /\ message_queue \in [Programs -> Seq(Programs \X Commands)]
    /\ deeds \in 0 .. MaxDeeds
    /\ astray \in SUBSET Items

\* Each item is still where it was generated, or was taken from there by a player.
\* Programs know where the others are; deltas of levels they never saw are empty.
Init ==
    \E held \in SUBSET Items, level \in [Programs -> Levels] :
    \E holder \in [held -> Programs] :
        /\ \A i, j \in held : holder[i] = holder[j] => i = j
        /\ plrlevel = [p \in Programs |-> level]
        /\ _pLvlChanging = [p \in Programs |-> [q \in Programs |-> FALSE]]
        /\ loading = {}
        /\ floor = [p \in Programs |-> [key \in Keys |->
               IF level[p] = Home /\ key.pregen /\ key.item \notin held THEN 1 ELSE 0]]
        /\ requested = [p \in Programs |-> {}]
        /\ delta = [p \in Programs |-> [l \in Levels |-> [key \in Keys |->
               IF l # Home \/ ~key.pregen THEN "CMD_INVALID"
               ELSE IF key.item \in held THEN "PickedUpItem"
               ELSE IF level[p] = Home THEN "FloorItem" ELSE "CMD_INVALID"]]]
        /\ itemrecord = [p \in Programs |-> {}]
        /\ HoldItem = [p \in Programs |->
               IF \E i \in held : holder[i] = p
               THEN Loose(Pregen(CHOOSE i \in held : holder[i] = p)) ELSE None]
        /\ ItemLimbo = [p \in Programs |-> None]
        /\ TimedMsgList = [p \in Programs |-> <<>>]
        /\ message_queue = [p \in Programs |-> <<>>]
        /\ deeds = 0
        /\ astray = {}

-----------------------------------------------------------------------------
(* Owners of levels, commands, floors.                                     *)

\* Player q is on the level, as far as program p knows.
isPlrOnLevel(p, q, level) == ~_pLvlChanging[p][q] /\ plrlevel[p][q] = level

\* Mutant of isLevelOwnedByLocalClient: every program on the level owns it.
isLevelOwnedByAll(p, q) ==
    isPlrOnLevel(p, p, plrlevel[p][q])

\* isLevelOwnedByLocalClient of player q, called by program p.
isLevelOwnedByLocalClient(p, q) ==
    LET there == {r \in Programs : isPlrOnLevel(p, r, plrlevel[p][q])}
    IN  p \in there /\ \A r \in there : p <= r

\* NetSendHiPri of some commands.  The server passes them on to all others; the sender
\* handles them behind its former ones, and behind those of others that have arrived by
\* now.  "rest" is what it has still to handle.
NetSendHiPri(p, rest, commands) ==
    LET sent == [i \in 1 .. Len(commands) |-> <<p, commands[i]>>] IN
    \E arrived \in 0 .. Len(rest) :
        /\ \A i \in arrived + 1 .. Len(rest) : rest[i][1] # p
        /\ message_queue' = [q \in Programs |->
               IF q = p
               THEN SubSeq(rest, 1, arrived) \o sent \o SubSeq(rest, arrived + 1, Len(rest))
               ELSE message_queue[q] \o sent]

Send(p, command) == NetSendHiPri(p, message_queue[p], <<command>>)

\* RespawnItem in PlaceItemInWorld.
PlaceItem(p, key) == floor' = [floor EXCEPT ![p][key] = @ + 1]

OnFloor(p, key) == floor[p][key] > 0

\* CleanupItems
CleanupItems(p, key) ==
    /\ floor' = [floor EXCEPT ![p][key] = @ - 1]
    /\ requested' = [requested EXCEPT ![p] = @ \ {key}]

\* Mutants of SyncGetItem: an item is taken without looking for it, and not at all.
SyncGetItemUnchecked(p, key) == CleanupItems(p, key)
SyncGetItemNever(p, key) == key \in Keys /\ UNCHANGED <<floor, requested>>

\* SyncGetItem
SyncGetItem(p, key) ==
    IF OnFloor(p, key) THEN CleanupItems(p, key) ELSE UNCHANGED <<floor, requested>>

\* What InvGetItem does to the player's hand: what it holds is dropped on the floor.
\* "sent" are the commands that were sent just before.
Grasp(p, key, rest, sent) ==
    /\ HoldItem' = [HoldItem EXCEPT ![p] = Loose(key)]
    /\ IF HoldItem[p] = None
       THEN /\ NetSendHiPri(p, rest, sent)
            /\ UNCHANGED ItemLimbo
       ELSE /\ NetSendHiPri(p, rest, Append(sent,
                   Command("CMD_SYNCPUTITEM", HoldItem[p], p, p, plrlevel[p][p])))
            /\ ItemLimbo' = [ItemLimbo EXCEPT ![p] = HoldItem[p]]

\* InvGetItem
InvGetItem(p, key, rest, sent) ==
    /\ Grasp(p, key, rest, sent)
    /\ CleanupItems(p, key)

\* Mutant of DeltaTaken: the entry of a dropped item stays.
DeltaTakenStays(entry) == IF entry = "DroppedItem" THEN entry ELSE "PickedUpItem"

\* DeltaGetItem: what it returns, and the entry that is left.
DeltaGetItem(entry, key) == entry # "CMD_INVALID" \/ key.pregen
DeltaTaken(entry) == IF entry = "DroppedItem" THEN "CMD_INVALID" ELSE "PickedUpItem"

TakeFromDelta(p, command) ==
    delta' = [delta EXCEPT ![p][command.level][command.key] =
        IF DeltaGetItem(@, command.key) THEN DeltaTaken(@) ELSE @]

\* DeltaPutItem
DeltaPutItem(p, level, key) ==
    delta' = [delta EXCEPT ![p][level][key] =
        IF @ = "CMD_INVALID" THEN "DroppedItem" ELSE @]

-----------------------------------------------------------------------------
(* What players do.                                                        *)

\* Packets are handled until none is left, those that are sent meanwhile included: what a
\* player has sent itself is handled by the time it acts, unless it is a request of the
\* step of the game just before.
Drained(p) ==
    \A i \in 1 .. Len(message_queue[p]) :
        message_queue[p][i][1] = p => message_queue[p][i][2].bCmd = "CMD_REQUESTGITEM"

\* ACTION_PICKUPITEM with an empty hand.
RequestItem(p, key) ==
    /\ p \notin loading
    /\ ~_pLvlChanging[p][p]
    /\ Drained(p)
    /\ deeds < MaxDeeds
    /\ HoldItem[p] = None
    /\ OnFloor(p, key)
    /\ key \notin requested[p]
    /\ requested' = [requested EXCEPT ![p] = @ \cup {key}]
    /\ Send(p, Command("CMD_REQUESTGITEM", key, p, p, plrlevel[p][p]))
    /\ deeds' = deeds + 1
    /\ UNCHANGED <<places, floor, delta, itemrecord, HoldItem, ItemLimbo, TimedMsgList, astray>>

\* LeftMouseDown with an item in hand.
DropItem(p) ==
    /\ p \notin loading
    /\ ~_pLvlChanging[p][p]
    /\ Drained(p)
    /\ deeds < MaxDeeds
    /\ HoldItem[p] # None
    /\ Send(p, Command("CMD_PUTITEM", HoldItem[p], p, p, plrlevel[p][p]))
    /\ ItemLimbo' = [ItemLimbo EXCEPT ![p] = HoldItem[p]]
    /\ HoldItem' = [HoldItem EXCEPT ![p] = None]
    /\ deeds' = deeds + 1
    /\ UNCHANGED <<places, floor, requested, delta, itemrecord, TimedMsgList, astray>>

\* Some program has still to handle such a command.
Underway(Sought(_)) ==
    \E p \in Programs : \E i \in 1 .. Len(message_queue[p]) : Sought(message_queue[p][i][2])

\* Items that a higher player granted there, which p, who will own the level, does not know
\* yet to be taken.
Overtaken(p, level) ==
    {item \in Items :
        \E i \in 1 .. Len(message_queue[p]) :
            LET m == message_queue[p][i][2] IN
            m.bCmd = "CMD_GETITEM" /\ m.key.item = item /\ m.level = level /\ p < m.bMaster}

\* StartNewLvl
StartNewLvl(p, level) ==
    /\ p \notin loading
    /\ ~_pLvlChanging[p][p]
    /\ Drained(p)
    /\ deeds < MaxDeeds
    /\ level # plrlevel[p][p]
    /\ plrlevel' = [plrlevel EXCEPT ![p][p] = level]
    /\ _pLvlChanging' = [_pLvlChanging EXCEPT ![p][p] = TRUE]
    /\ loading' = loading \cup {p}
    /\ floor' = [floor EXCEPT ![p] = [key \in Keys |-> 0]]
    /\ requested' = [requested EXCEPT ![p] = {}]
    /\ Send(p, Command("CMD_NEWLVL", None, p, p, level))
    /\ deeds' = deeds + 1
    /\ astray' = astray \cup Overtaken(p, level)
    /\ UNCHANGED <<delta, itemrecord, HoldItem, ItemLimbo, TimedMsgList>>

\* The entries of a level once it was generated: DeltaAddItem.
DeltaAddItem(entries, level) ==
    [key \in Keys |-> IF level = Home /\ key.pregen /\ entries[key] = "CMD_INVALID"
                      THEN "FloorItem" ELSE entries[key]]

\* DeltaLoadItems
DeltaLoadItems(entries) ==
    [key \in Keys |-> IF entries[key] \in {"FloorItem", "DroppedItem"} THEN 1 ELSE 0]

\* The level is loaded, and the program tells the others.
JoinLevel(p) ==
    LET level == plrlevel[p][p] IN
    /\ p \in loading
    /\ loading' = loading \ {p}
    /\ delta' = [delta EXCEPT ![p][level] = DeltaAddItem(@, level)]
    /\ floor' = [floor EXCEPT ![p] = DeltaLoadItems(DeltaAddItem(delta[p][level], level))]
    /\ Send(p, Command("CMD_PLAYER_JOINLEVEL", None, p, p, level))
    /\ UNCHANGED <<plrlevel, _pLvlChanging, requested, itemrecord, HoldItem, ItemLimbo,
                   TimedMsgList, deeds, astray>>

-----------------------------------------------------------------------------
(* Handling of a command m of player s by program p.  "rest" and "timed"   *)
(* are what p has still to handle and to try again behind m; "again" says  *)
(* that m was tried before.                                                *)

KeepTimed(p, timed) == TimedMsgList' = [TimedMsgList EXCEPT ![p] = timed]

\* A command is given up after 5 s.  No command takes that long to arrive.
TimedOut(key) ==
    ~Underway(LAMBDA m : m.key = key
                  /\ m.bCmd \in {"CMD_GETITEM", "CMD_PUTITEM", "CMD_SYNCPUTITEM"})

\* OnRequestGetItem asks only whether p owns the level it is on.  p may have left the level
\* of the request meanwhile, or a lower player enters it without p having heard all of that.
Misjudges(p, m) ==
    \/ plrlevel[p][p] # m.level
    \/ \E q \in 0 .. p - 1 : plrlevel[p][q] = m.level /\ _pLvlChanging[p][q]
    \/ \E i \in 1 .. Len(message_queue[p]) :
           LET n == message_queue[p][i] IN
           /\ n[1] < p
           /\ n[2].level = m.level
           /\ n[2].bCmd \in {"CMD_NEWLVL", "CMD_PLAYER_JOINLEVEL"}

\* OnRequestGetItem of an item that lies there: CMD_GETITEM and SetItemRecord.
Grant(p, m, rest, timed) ==
    LET granted == Command("CMD_GETITEM", m.key, p, m.bPnum, m.level) IN
    /\ OnFloor(p, m.key)
    /\ itemrecord' = [itemrecord EXCEPT ![p] = @ \cup {m.key}]
    /\ IF m.bPnum = p
       THEN InvGetItem(p, m.key, rest, <<granted>>)
       ELSE /\ SyncGetItem(p, m.key)
            /\ NetSendHiPri(p, rest, <<granted>>)
            /\ UNCHANGED <<HoldItem, ItemLimbo>>
    /\ KeepTimed(p, timed)
    /\ astray' = IF Misjudges(p, m) THEN astray \cup {m.key.item} ELSE astray

\* NetSendCmdReq2: the item may still come.
Retry(p, m, rest, timed) ==
    /\ ~OnFloor(p, m.key)
    /\ KeepTimed(p, Append(timed, [m EXCEPT !.bMaster = p]))
    /\ NetSendHiPri(p, rest, <<>>)
    /\ UNCHANGED <<floor, requested, itemrecord, HoldItem, ItemLimbo, astray>>

\* NetSendCmdExtra: it does not, and nobody shall have it.
GiveUp(p, m, rest, timed, again) ==
    /\ again
    /\ ~OnFloor(p, m.key)
    /\ TimedOut(m.key)
    /\ KeepTimed(p, timed)
    /\ NetSendHiPri(p, rest, <<[m EXCEPT !.bCmd = "CMD_ITEMEXTRA"]>>)
    /\ astray' = astray \cup {m.key.item}
    /\ UNCHANGED <<floor, requested, itemrecord, HoldItem, ItemLimbo>>

\* Those who do not own the level leave the answer to its owner; what the owner granted
\* a short while ago is not granted again (GetItemRecord).
Refused(p, s, m) == ~isLevelOwnedByLocalClient(p, s) \/ m.key \in itemrecord[p]

OnRequestGetItem(p, s, m, rest, timed, again) ==
    /\ m.bCmd = "CMD_REQUESTGITEM"
    /\ IF Refused(p, s, m)
       THEN /\ KeepTimed(p, timed)
            /\ NetSendHiPri(p, rest, <<>>)
            /\ UNCHANGED <<floor, requested, itemrecord, HoldItem, ItemLimbo, astray>>
       ELSE \/ Grant(p, m, rest, timed)
            \/ Retry(p, m, rest, timed)
            \/ GiveUp(p, m, rest, timed, again)
    /\ UNCHANGED <<places, delta, deeds>>

\* The player takes what was granted.  If it is not there, FindGetItem returns -1, and the
\* element before ActiveItems is read: any item, or none.
TakeGranted(p, key, rest) ==
    \E found \in IF OnFloor(p, key) THEN {key} ELSE {None} \cup {k \in Keys : OnFloor(p, k)} :
        IF found = None
        THEN /\ NetSendHiPri(p, rest, <<>>)
             /\ UNCHANGED <<floor, requested, HoldItem, ItemLimbo, astray>>
        ELSE /\ InvGetItem(p, found, rest, <<>>)
             /\ astray' = IF found = key THEN astray ELSE astray \cup {found.item}

\* OnGetItem of an item that p does not know yet: it is tried again, up to 5 s.
UnknownItem(p, m, rest, timed, again) ==
    /\ \/ KeepTimed(p, Append(timed, m))
       \/ /\ again
          /\ TimedOut(m.key)
          /\ KeepTimed(p, timed)
    /\ NetSendHiPri(p, rest, <<>>)
    /\ UNCHANGED <<floor, requested, delta, HoldItem, ItemLimbo, astray>>

\* What p does with an item that it knows.
Fetch(p, m, rest) ==
    LET isOnActiveLevel == plrlevel[p][p] = m.level IN
    \/ /\ (~isOnActiveLevel /\ m.bPnum # p) \/ m.bMaster = p
       /\ NetSendHiPri(p, rest, <<>>)
       /\ UNCHANGED <<floor, requested, HoldItem, ItemLimbo, astray>>
    \/ /\ isOnActiveLevel /\ m.bPnum # p /\ m.bMaster # p
       /\ SyncGetItem(p, m.key)
       /\ NetSendHiPri(p, rest, <<>>)
       /\ UNCHANGED <<HoldItem, ItemLimbo, astray>>
    \/ /\ isOnActiveLevel /\ m.bPnum = p /\ m.bMaster # p
       /\ TakeGranted(p, m.key, rest)
    \/ /\ ~isOnActiveLevel /\ m.bPnum = p /\ m.bMaster # p
       /\ Grasp(p, m.key, rest, <<>>)
       /\ UNCHANGED <<floor, requested, astray>>

OnGetItem(p, s, m, rest, timed, again) ==
    /\ m.bCmd = "CMD_GETITEM"
    /\ IF DeltaGetItem(delta[p][m.level][m.key], m.key)
       THEN /\ Fetch(p, m, rest)
            /\ TakeFromDelta(p, m)
            /\ KeepTimed(p, timed)
       ELSE UnknownItem(p, m, rest, timed, again)
    /\ UNCHANGED <<places, itemrecord, deeds>>

OnItemExtra(p, s, m, rest, timed) ==
    /\ m.bCmd = "CMD_ITEMEXTRA"
    /\ TakeFromDelta(p, m)
    /\ IF plrlevel[p][s] = plrlevel[p][p]
       THEN SyncGetItem(p, m.key)
       ELSE UNCHANGED <<floor, requested>>
    /\ KeepTimed(p, timed)
    /\ NetSendHiPri(p, rest, <<>>)
    /\ UNCHANGED <<places, itemrecord, HoldItem, ItemLimbo, deeds, astray>>

\* OnPutItem and OnSyncPutItem: the player itself places what it dropped last.
OnPutItem(p, s, m, rest, timed) ==
    /\ m.bCmd \in {"CMD_PUTITEM", "CMD_SYNCPUTITEM"}
    /\ IF plrlevel[p][s] = plrlevel[p][p]
       THEN PlaceItem(p, IF m.bCmd = "CMD_PUTITEM" /\ s = p THEN ItemLimbo[p] ELSE m.key)
       ELSE UNCHANGED floor
    /\ itemrecord' = [itemrecord EXCEPT ![p] = @ \ {m.key}]
    /\ DeltaPutItem(p, plrlevel[p][s], m.key)
    /\ KeepTimed(p, timed)
    /\ NetSendHiPri(p, rest, <<>>)
    /\ UNCHANGED <<places, requested, HoldItem, ItemLimbo, deeds, astray>>

\* OnNewLevel: StartNewLvl of another player.
OnNewLevel(p, s, m, rest, timed) ==
    /\ m.bCmd = "CMD_NEWLVL"
    /\ IF s # p
       THEN /\ _pLvlChanging' = [_pLvlChanging EXCEPT ![p][s] = TRUE]
            /\ plrlevel' = [plrlevel EXCEPT ![p][s] = m.level]
       ELSE UNCHANGED <<_pLvlChanging, plrlevel>>
    /\ KeepTimed(p, timed)
    /\ NetSendHiPri(p, rest, <<>>)
    /\ UNCHANGED <<loading, floor, requested, delta, itemrecord, HoldItem, ItemLimbo,
                   deeds, astray>>

OnPlayerJoinLevel(p, s, m, rest, timed) ==
    /\ m.bCmd = "CMD_PLAYER_JOINLEVEL"
    /\ _pLvlChanging' = [_pLvlChanging EXCEPT ![p][s] = FALSE]
    /\ plrlevel' = [plrlevel EXCEPT ![p][s] = IF s = p THEN @ ELSE m.level]
    /\ KeepTimed(p, timed)
    /\ NetSendHiPri(p, rest, <<>>)
    /\ UNCHANGED <<loading, floor, requested, delta, itemrecord, HoldItem, ItemLimbo,
                   deeds, astray>>

ParseCmd(p, s, m, rest, timed, again) ==
    \/ OnRequestGetItem(p, s, m, rest, timed, again)
    \/ OnGetItem(p, s, m, rest, timed, again)
    \/ OnItemExtra(p, s, m, rest, timed)
    \/ OnPutItem(p, s, m, rest, timed)
    \/ OnNewLevel(p, s, m, rest, timed)
    \/ OnPlayerJoinLevel(p, s, m, rest, timed)

\* HandleAllPackets of the first command.
HandleCommand(p) ==
    /\ p \notin loading
    /\ message_queue[p] # <<>>
    /\ ParseCmd(p, Head(message_queue[p])[1], Head(message_queue[p])[2],
                Tail(message_queue[p]), TimedMsgList[p], FALSE)

\* ProcessTmsgs: as if the player itself had sent it.
ProcessTmsgs(p) ==
    /\ p \notin loading
    /\ TimedMsgList[p] # <<>>
    /\ ParseCmd(p, p, Head(TimedMsgList[p]), message_queue[p],
                Tail(TimedMsgList[p]), TRUE)

\* 6 s after a grant, GetItemRecord forgets it.  Nobody asks for an item that long after
\* it was granted to another.
RecordExpires(p, key) ==
    /\ key \in itemrecord[p]
    /\ ~Underway(LAMBDA m : m.key = key
                      /\ m.bCmd \in {"CMD_REQUESTGITEM", "CMD_GETITEM"})
    /\ itemrecord' = [itemrecord EXCEPT ![p] = @ \ {key}]
    /\ UNCHANGED <<places, floor, requested, delta, HoldItem, ItemLimbo, TimedMsgList,
                   message_queue, deeds, astray>>

-----------------------------------------------------------------------------

Next ==
    \/ \E p \in Programs, key \in Keys : RequestItem(p, key)
    \/ \E p \in Programs : DropItem(p)
    \/ \E p \in Programs, level \in Levels : StartNewLvl(p, level)
    \/ \E p \in Programs : JoinLevel(p)
    \/ \E p \in Programs : HandleCommand(p)
    \/ \E p \in Programs : ProcessTmsgs(p)
    \/ \E p \in Programs, key \in Keys : RecordExpires(p, key)

Spec == Init /\ [][Next]_vars

-----------------------------------------------------------------------------
(* Properties.                                                             *)
(*                                                                         *)
(* They are about the items that are not astray.  The code sends an item   *)
(* astray where an owner grants it that misjudges, where a request for it  *)
(* is given up (what others drop meanwhile crosses CMD_ITEMEXTRA), and     *)
(* where it is read from before ActiveItems.  No step does so otherwise.   *)

\* The players that have an item, the keys it may have, and the floors that it lies on for
\* a program that enters the level.
Holders(item) == {p \in Programs : HoldItem[p].item = item}
KeysOf(item) == {key \in Keys : key.item = item}
Lies(p, level, key) == DeltaLoadItems(DeltaAddItem(delta[p][level], level))[key] = 1
Floors(p, item) == {<<level, key>> \in Levels \X KeysOf(item) : Lies(p, level, key)}

\* Nobody has an item that another has as well, however requests, grants and changes of
\* level and of its owner cross, unless it is astray (OnRequestGetItem, OnGetItem).
OneHolder == \A item \in Items \ astray : Cardinality(Holders(item)) <= 1

\* A player that is granted an item finds it on its own floor, unless it is astray.  For
\* one that is astray the element before ActiveItems is read (OnGetItem).
GrantFindsItem ==
    \A p \in Programs \ loading :
        message_queue[p] # <<>> =>
            LET m == Head(message_queue[p])[2] IN
            /\ m.bCmd = "CMD_GETITEM"
            /\ m.key.item \notin astray
            /\ m.bPnum = p
            /\ m.bMaster # p
            /\ m.level = plrlevel[p][p]
            /\ DeltaGetItem(delta[p][m.level][m.key], m.key)
            => OnFloor(p, m.key)

Quiet ==
    /\ loading = {}
    /\ \A p \in Programs : TimedMsgList[p] = <<>> /\ message_queue[p] = <<>>

\* Once all commands are handled, every item that is not astray is in one place, and all
\* programs agree: those on its level have it on their floors, the others in their deltas.
Converged ==
    Quiet => \A item \in Items \ astray :
        /\ Cardinality(Holders(item)) + Cardinality(Floors(0, item)) = 1
        /\ \A p \in Programs : Floors(p, item) = Floors(0, item)
        /\ \A p \in Programs, key \in KeysOf(item) :
               floor[p][key] = IF Lies(p, plrlevel[p][p], key) THEN 1 ELSE 0
===============================================================================
