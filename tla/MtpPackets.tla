------------------------------ MODULE MtpPackets ------------------------------
(***************************************************************************)
(* The request loop of MtpServer::run with the requests that describe: the *)
(* device, its storage, its properties and the objects, from the request   *)
(* container to the response, over a USB connection whose reads time out   *)
(* after a second.  What the containers carry is written and read as in    *)
(* MtpData.                                                                *)
(*                                                                         *)
(* The database here is what the descriptions are made of; how handles,    *)
(* paths and directories come about is in MtpServer, and the data of files *)
(* in MtpTransfer.  Every directory has been read, there is one storage,   *)
(* and requests name it as they were told to.                              *)
(***************************************************************************)
EXTENDS MtpData, FiniteSets

CONSTANTS CardNames,  \* names a file of the card may have, as characters
          HostNames,  \* names a host may send, as UTF-16 units
          Nothing,
          MaxHandle,  \* bound: the largest handle given out
          MaxWrites,  \* bound: requests that change the database
          MaxRare,    \* bound: late data, requests given up, failed writes
          TroubleOps, \* bound: the operations these happen to, and that are asked for after them
          Tids        \* bound: transaction ids go around in 0..Tids-1

\* Characters of a text, and UTF-16 units; none is NUL.
Unicode == {c \in Nat : c # 0 /\ c < 17 * 65536}
Utf16   == 1..65535

\* The operations that have a handler here, and one that has none.
Operations ==
  {"GetDeviceInfo", "OpenSession", "CloseSession", "GetStorageIDs", "GetStorageInfo",
   "GetObjectPropsSupported", "GetObjectHandles", "GetNumObjects", "GetObjectReferences",
   "SetObjectReferences", "GetObjectPropValue", "SetObjectPropValue", "GetDevicePropValue",
   "SetDevicePropValue", "ResetDevicePropValue", "GetObjectPropList", "GetObjectInfo",
   "GetObjectPropDesc", "GetDevicePropDesc", "GetThumb", "SendObjectInfo", "Skip"}

ASSUME PacketsAssumption ==
  /\ CardNames # {} /\ <<>> \notin CardNames \cup HostNames
  /\ CardNames \subseteq Seq(Unicode) /\ HostNames \subseteq Seq(Utf16)
  /\ MaxHandle \in 4..(Long - 2)  \* a handle is a number of four bytes, and 0xFFFFFFFF is none
  /\ Nothing \notin [op : Operations, tid : Int, par : Seq(Int)]
  /\ MaxWrites \in Nat /\ MaxRare \in Nat
  /\ Tids \in Nat /\ MaxRare < Tids  \* an id comes around after all that could be confused with it

VARIABLES
  pc,       \* where run() is: "request", "data", "handle", "send", "respond"
  req,      \* mRequest: operation, transaction and parameters
  data,     \* the fields of mData
  resp,     \* mResponse, with the request it was made for (history)
  session,  \* mSessionID, Nothing while no session is open
  db,       \* SwitchMtpDatabase::db
  card,     \* what the objects are, as the card was read and the host had it changed (history)
  wire,     \* containers from the host that the responder has not read
  host,     \* the host's transaction
  writes,   \* how many requests changed the database
  rare      \* how many times something went wrong

vars == <<pc, req, data, resp, session, db, card, wire, host, writes, rare>>

-----------------------------------------------------------------------------
(* Codes of mtp.h.                                                         *)

All     == Long - 1  \* 0xFFFFFFFF: no parent, all storages, all properties, no handle
Storage == 4         \* MTP_STORAGE_REMOVABLE_RAM, which here is an identifier
Folder  == \h3001
File    == \h3000

StorageID   == \hDC01
Format      == \hDC02
Protection  == \hDC03
Size        == \hDC04
AssocType   == \hDC05
AssocDesc   == \hDC06
FileName    == \hDC07
Created     == \hDC08
Modified    == \hDC09
Parent      == \hDC0B
Hidden      == \hDC0D
UID         == \hDC41
NonConsumed == \hDC4F
DisplayName == \hDCE0
Width       == \hDC87
Height      == \hDC88
BitDepth    == \hDCD3
Partner     == \hD401
Friendly    == \hD402

\* getSupportedObjectProperties and getSupportedDeviceProperties
ObjectProperties ==
  <<StorageID, Parent, Format, Size, FileName, DisplayName, UID, AssocType, AssocDesc, Protection,
    Created, Modified, Hidden, NonConsumed>>
DeviceProperties == <<Friendly, Partner>>

\* kSupportedOperationCodes, kSupportedEventCodes
OperationCodes ==
  <<\h1001, \h1002, \h1003, \h1004, \h1005, \h1006, \h1007, \h1008, \h1009, \h100A, \h100B, \h100C,
    \h100D, \h1014, \h1015, \h1016, \h1017, \h1019, \h101B, \h9801, \h9802, \h9803, \h9804, \h9805,
    \h9810, \h9811, \h95C1, \h95C2, \h95C3, \h95C4, \h95C5>>
EventCodes == <<\h4002, \h4003, \h4004, \h4005, \h4007, \hC801>>
CaptureFormats == <<Folder, \h380B>>
PlaybackFormats ==
  <<File, Folder, \h3004, \h3005, \h3800, \h3801, \h3802, \h3804, \h3807, \h3808, \h380B, \h380D,
    \h380E, \h380F, \h3810, \hB902, \h3009, \h3008, \hB901, \hB903, \hB906, \hBA03, \hBA05>>

-----------------------------------------------------------------------------
(* What is known of an object, and the tables that describe it.            *)

Entry(parent, format, size, name, modified) ==
  [storage |-> Storage, parent |-> parent, format |-> format, size |-> size, name |-> name,
   modified |-> modified]

AssociationType(e) == IF e.format = Folder THEN 1 ELSE 0

\* The type a property is sent with, by getObjectPropertyValue and getObjectPropertyList.
TypeOf ==
  [p \in Range(ObjectProperties) |->
     CASE p \in {FileName, DisplayName, Created, Modified} -> STR
       [] p = UID -> UINT128
       [] p \in {StorageID, Parent, Size, AssocDesc} -> UINT32
       [] p \in {Format, AssocType, Protection, Hidden, NonConsumed} -> UINT16]

\* The value of a property of an object e with handle h.
ValueOf(p, h, e) ==
  CASE p = StorageID -> e.storage
    [] p = Parent -> e.parent
    [] p = Format -> e.format
    [] p = Size -> e.size
    [] p \in {FileName, DisplayName} -> e.name
    [] p = UID -> h
    [] p = AssocType -> AssociationType(e)
    [] p = Created -> Date(0)
    [] p = Modified -> Date(e.modified)
    [] p = NonConsumed -> IF e.format = Folder THEN 0 ELSE 1
    [] p \in {AssocDesc, Protection, Hidden} -> 0

\* These are answered for any handle: db is not looked at.
Unlooked == {UID, AssocDesc, Protection, Created, Hidden, NonConsumed}
NoEntry  == Entry(0, File, 0, <<>>, 0)

\* getObjectPropertyValue.  NonConsumed breaks out of the switch before it puts a value.
PropertyValue(h, p) ==
  IF h \in {0, All} THEN <<"INVALID_OBJECT_HANDLE", <<>>>>
  ELSE IF p \notin DOMAIN TypeOf \/ (p \notin Unlooked /\ h \notin DOMAIN db)
  THEN <<"GENERAL_ERROR", <<>>>>
  ELSE <<"OK", IF p = NonConsumed THEN <<>>
               ELSE <<<<TypeOf[p], ValueOf(p, h, IF h \in DOMAIN db THEN db[h] ELSE NoEntry)>>>>>>

\* getObjectPropertyList, the elements of one object, in the order of the source: the date of the
\* last change goes by the code of the date of creation.
ListOrder ==
  <<UID, StorageID, Parent, Format, Size, FileName, DisplayName, AssocType, AssocDesc, Protection,
    Created, Modified, Hidden, NonConsumed>>
Elements(h, property) ==
  LET asked == IF property = All THEN ListOrder
               ELSE IF property \in Range(ListOrder) THEN <<property>> ELSE <<>> IN
  FlattenSeq([i \in DOMAIN asked |->
    LET p == asked[i] IN
    <<<<UINT32, h>>, <<UINT16, IF p = Modified THEN Created ELSE p>>, <<UINT16, TypeOf[p]>>,
      <<TypeOf[p], ValueOf(p, h, db[h])>>>>])

InOrder(S) ==
  CHOOSE s \in [1..Cardinality(S) -> S] : \A i, j \in 1..Cardinality(S) : i < j => s[i] < s[j]
ChildrenOf(h) == InOrder({g \in DOMAIN db : db[g].parent = h})

\* The handles of a list: a depth of 0 is the object itself, any other up to 1, and -1, the
\* objects right under it.
Listed(h, depth) == IF depth = 0 THEN <<h>> ELSE ChildrenOf(h)

\* Mutant: every list ends after one object.
SentFirst(handles, property) == IF handles = <<>> THEN <<>> ELSE <<Head(handles)>>

\* The break behind the last property leaves the loop over the objects.
Sent(handles, property) ==
  IF property \in {All, NonConsumed} /\ handles # <<>> THEN <<Head(handles)>> ELSE handles

\* The count of a list of all properties is six for each object, whatever is sent.
PropertyList(h, property, group, depth) ==
  LET handles == Listed(h, depth)
      sent == Sent(handles, property)
  IN  IF h = All \/ (property = 0 /\ group = 0) THEN <<"PARAMETER_NOT_SUPPORTED", <<>>>>
      ELSE IF group # 0 THEN <<"SPECIFICATION_BY_GROUP_UNSUPPORTED", <<>>>>
      ELSE IF depth \in 2..(Long \div 2) THEN <<"SPECIFICATION_BY_DEPTH_UNSUPPORTED", <<>>>>
      ELSE IF depth = 0 /\ h \notin DOMAIN db THEN <<"INVALID_OBJECT_HANDLE", <<>>>>
      ELSE <<"OK", <<<<UINT32, (IF property = All THEN 6 ELSE 1) * Len(handles)>>>>
                   \o FlattenSeq([i \in DOMAIN sent |-> Elements(sent[i], property)])>>

\* MtpObjectInfo, as it is made, and as getObjectInfo fills it in; the keywords it makes up are not
\* sent.
Blank == [i \in DOMAIN ObjectLayout |-> IF ObjectLayout[i] = STR THEN <<>> ELSE 0]
Info(e) ==
  [Blank EXCEPT ![1] = e.storage, ![2] = e.format, ![4] = e.size, ![12] = e.parent,
                ![13] = AssociationType(e), ![16] = e.name, ![18] = Date(e.modified)]

\* doGetObjectInfo
ObjectInfo(h) ==
  IF h \in {0, All} THEN <<"INVALID_OBJECT_HANDLE", <<>>>>
  ELSE IF h \notin DOMAIN db THEN <<"GENERAL_ERROR", <<>>>>
  ELSE <<"OK", [i \in DOMAIN ObjectLayout |-> <<ObjectLayout[i], Info(db[h])[i]>>]>>

\* getObjectPropertyDesc: type, and whether it may be set.
DescribedType ==
  [p \in DOMAIN TypeOf \cup {Width, Height, BitDepth} |->
     IF p \in DOMAIN TypeOf THEN TypeOf[p] ELSE UINT32]
Writeable == {Parent, DisplayName, FileName}
ObjectPropertyDesc(p) ==
  IF p \in DOMAIN DescribedType
  THEN <<"OK", PropertyItems(p, DescribedType[p], p \in Writeable)>>
  ELSE <<"OBJECT_PROP_NOT_SUPPORTED", <<>>>>

\* getDevicePropertyDesc
DevicePropertyDesc(p) ==
  IF p \in Range(DeviceProperties) THEN <<"OK", PropertyItems(p, STR, FALSE)>>
  ELSE <<"DEVICE_PROP_NOT_SUPPORTED", <<>>>>

\* Constant texts: "Switch", "SD Card", the extensions, the maker, the version, the serial number.
Switch  == Char(83)
SdCard  == Char(68)
Words   == <<Char(109), Char(78), Char(83), Char(49), Char(63)>>
Blocks  == <<3 * Long, 2 * Long>>  \* capacity and free space of the card

\* doGetDeviceInfo
DeviceInfo ==
  <<<<UINT16, 100>>, <<UINT32, 6>>, <<UINT16, 100>>, <<STR, Words[1]>>, <<UINT16, 0>>,
    <<AUINT16, OperationCodes>>, <<AUINT16, EventCodes>>, <<AUINT16, DeviceProperties>>,
    <<AUINT16, CaptureFormats>>, <<AUINT16, PlaybackFormats>>,
    <<STR, Words[2]>>, <<STR, Words[3]>>, <<STR, Words[4]>>, <<STR, Words[5]>>>>

\* doGetStorageInfo; MtpStorage::getType and the rest
StorageInfo ==
  <<<<UINT16, 3>>, <<UINT16, 2>>, <<UINT16, 0>>, <<UINT64, Blocks[1]>>, <<UINT64, Blocks[2]>>,
    <<UINT32, 1024>>, <<STR, SdCard>>, <<STR, <<>>>>>>

\* getStorage, hasStorage: one storage
GetStorage(id) == id \in {0, Storage}
HasStorage(id) == id \in {0, Storage, All}

\* getObjectList: the storage is compared as it was given.
ObjectList(storage, format, parent) ==
  InOrder({h \in DOMAIN db :
             /\ db[h].storage = storage /\ db[h].parent = (IF parent = All THEN 0 ELSE parent)
             /\ format \in {0, db[h].format}})
NumObjects(storage, format, parent) == Len(ObjectList(storage, format, parent))

\* The references of an object are the objects under it of its own format.
References(h) == ObjectList(db[h].storage, db[h].format, h)

-----------------------------------------------------------------------------
(* The loop of run().                                                      *)

\* Operations whose data comes from the host.
DataIn == {"SendObjectInfo", "SetObjectReferences", "SetObjectPropValue", "SetDevicePropValue"}

Idle(tid) ==
  [phase |-> "idle", op |-> "", par |-> <<>>, payload |-> <<>>, heard |-> Nothing, tid |-> tid]
NoResp == [rc |-> "", par |-> <<>>, of |-> Nothing]

Init ==
  /\ pc = "request" /\ req = Nothing /\ data = <<>> /\ resp = NoResp /\ session = Nothing
  /\ \E name \in CardNames :
       db = [h \in 2..4 |-> CASE h = 2 -> Entry(0, Folder, 0, Char(100), 1)
                                [] h = 3 -> Entry(0, File, Long + 1, Char(233), 2)
                                [] h = 4 -> Entry(2, File, 1, Text(name), 3)]
  /\ card = db /\ wire = <<>>
  /\ host = Idle(0)
  /\ writes = 0 /\ rare = 0

\* What is in a parameter the host did not send: the buffer of mRequest is never cleared.
Leftover == {0, 3}

\* A data container read as a request: its words of four bytes, as far as they can be told.
Word(payload, i, left) ==
  IF i > Len(payload) THEN left
  ELSE IF \A j \in 1..i : payload[j][1] = 4 THEN payload[i][2] ELSE Garbage

Parameters(c, left) ==
  [i \in 1..5 |-> IF c.kind = "data" THEN Word(c.payload, i, left)
                  ELSE IF i <= Len(c.par) THEN c.par[i] ELSE left]

\* mRequest.read; the type of the container is not looked at.
Receive ==
  /\ pc = "request" /\ wire # <<>>
  /\ \E left \in Leftover :
       req' = [op |-> Head(wire).op, tid |-> Head(wire).tid, par |-> Parameters(Head(wire), left)]
  /\ pc' = IF Head(wire).op \in DataIn THEN "data" ELSE "handle"
  /\ data' = <<>> /\ resp' = NoResp /\ wire' = Tail(wire)
  /\ UNCHANGED <<session, db, card, host, writes, rare>>

\* mData.read takes whatever container is next.
ReceiveData ==
  /\ pc = "data" /\ wire # <<>>
  /\ LET c == Head(wire) IN
     data' = IF c.kind = "data" THEN c.payload ELSE [i \in DOMAIN c.par |-> Field(4, c.par[i])]
  /\ pc' = "handle" /\ wire' = Tail(wire)
  /\ UNCHANGED <<req, resp, session, db, card, host, writes, rare>>

\* Back to the next request, without a response to this one.
Abandon == pc' = "request" /\ req' = Nothing /\ data' = <<>> /\ resp' = NoResp

\* mData.read has waited for a second.
DataLate ==
  /\ pc = "data" /\ wire = <<>>
  /\ host.phase = "sending" => rare < MaxRare /\ host.op \in TroubleOps
  /\ rare' = IF host.phase = "sending" THEN rare + 1 ELSE rare
  /\ Abandon
  /\ UNCHANGED <<session, db, card, wire, host, writes>>

\* Mutant: the id of the last container that was read, which may be one taken for data.
LatestId == IF req.op \in DataIn THEN host.tid ELSE req.tid

\* The transaction id of the answer: the one of the request it was made for.
AnswerId == req.tid

Listens == host.phase = "waiting" /\ host.tid = AnswerId

\* Mutant: with nothing to write, the write counts as failed.
SendDataOrNothing ==
  /\ pc = "send"
  /\ IF data = <<>> /\ req.op \notin DataIn THEN Abandon
     ELSE pc' = "respond" /\ UNCHANGED <<req, data, resp>>
  /\ host' = IF Listens /\ req.op \notin DataIn THEN [host EXCEPT !.payload = data] ELSE host
  /\ UNCHANGED <<session, db, card, wire, writes, rare>>

\* mData.write, if the handler put anything in; what carries another id the host throws away.
SendData ==
  /\ pc = "send"
  /\ host' = IF Listens /\ req.op \notin DataIn THEN [host EXCEPT !.payload = data] ELSE host
  /\ pc' = "respond"
  /\ UNCHANGED <<req, data, resp, session, db, card, wire, writes, rare>>

\* mResponse.write
Respond ==
  /\ pc = "respond"
  /\ host' = IF Listens THEN [host EXCEPT !.phase = "done", !.heard = resp] ELSE host
  /\ Abandon
  /\ UNCHANGED <<session, db, card, wire, writes, rare>>

\* Either write fails: the response is not sent.
WriteFails ==
  /\ pc \in {"send", "respond"} /\ rare < MaxRare /\ rare' = rare + 1 /\ req.op \in TroubleOps
  /\ pc = "send" => data # <<>> /\ req.op \notin DataIn
  /\ Abandon
  /\ UNCHANGED <<session, db, card, wire, host, writes>>

-----------------------------------------------------------------------------
(* handleRequest: the handlers.                                            *)

Par(i) == req.par[i]

\* A response with its parameters, and the items put into mData.
Reply(rc, par, items) ==
  /\ pc' = "send"
  /\ resp' = [rc |-> rc, par |-> par, of |-> [op |-> req.op, par |-> req.par, payload |-> data]]
  /\ data' = Write(items)
  /\ UNCHANGED <<req, wire, host, rare>>

Handle(op) == pc = "handle" /\ req.op = op
Unchanging == UNCHANGED <<session, db, card, writes>>
Answer(op, result) == Handle(op) /\ Reply(result[1], <<>>, result[2]) /\ Unchanging

\* The handlers that want a session.
InSession(result) == IF session = Nothing THEN <<"SESSION_NOT_OPEN", <<>>>> ELSE result
OnStorage(result) ==
  InSession(IF HasStorage(Par(1)) THEN result ELSE <<"INVALID_STORAGE_ID", <<>>>>)

GetDeviceInfo == Answer("GetDeviceInfo", <<"OK", DeviceInfo>>)

OpenSession ==
  /\ Handle("OpenSession")
  /\ IF session # Nothing THEN Reply("SESSION_ALREADY_OPEN", <<session>>, <<>>) /\ UNCHANGED session
     ELSE Reply("OK", <<>>, <<>>) /\ session' = Par(1)
  /\ UNCHANGED <<db, card, writes>>

CloseSession ==
  /\ Handle("CloseSession")
  /\ Reply(InSession(<<"OK">>)[1], <<>>, <<>>) /\ session' = Nothing
  /\ UNCHANGED <<db, card, writes>>

GetStorageIDs == Answer("GetStorageIDs", InSession(<<"OK", <<<<AUINT32, <<Storage>>>>>>>>))

GetStorageInfo ==
  Answer("GetStorageInfo",
         InSession(IF GetStorage(Par(1)) THEN <<"OK", StorageInfo>> ELSE <<"INVALID_STORAGE_ID", <<>>>>))

GetObjectPropsSupported ==
  Answer("GetObjectPropsSupported", InSession(<<"OK", <<<<AUINT16, ObjectProperties>>>>>>))

GetObjectHandles ==
  Answer("GetObjectHandles",
         OnStorage(<<"OK", <<<<AUINT32, ObjectList(Par(1), Par(2), Par(3))>>>>>>))

GetNumObjects ==
  /\ Handle("GetNumObjects") /\ Unchanging
  /\ LET rc == OnStorage(<<"OK">>)[1] IN
     Reply(rc, IF rc = "OK" THEN <<NumObjects(Par(1), Par(2), Par(3))>> ELSE <<>>, <<>>)

\* isHandleValid holds of every handle given out.
GetObjectReferences ==
  Answer("GetObjectReferences",
         InSession(IF Par(1) \notin DOMAIN db THEN <<"INVALID_OBJECT_HANDLE", <<>>>>
                   ELSE <<"OK", <<<<AUINT32, References(Par(1))>>>>>>))

\* The references are read and forgotten.
SetObjectReferences == Answer("SetObjectReferences", InSession(<<"OK", <<>>>>))

GetObjectPropValue == Answer("GetObjectPropValue", PropertyValue(Par(1), Par(2)))

GetDevicePropValue ==
  Answer("GetDevicePropValue", IF Par(1) \in Range(DeviceProperties) THEN <<"OK", <<<<STR, Switch>>>>>>
                               ELSE <<"OPERATION_NOT_SUPPORTED", <<>>>>)

SetDevicePropValue   == Answer("SetDevicePropValue", <<"DEVICE_PROP_NOT_SUPPORTED", <<>>>>)
ResetDevicePropValue == Answer("ResetDevicePropValue", <<"DEVICE_PROP_NOT_SUPPORTED", <<>>>>)

GetObjectPropList ==
  Answer("GetObjectPropList", PropertyList(Par(1), Par(3), Par(4), Par(5)))

GetObjectInfo     == Answer("GetObjectInfo", ObjectInfo(Par(1)))
GetObjectPropDesc == Answer("GetObjectPropDesc", ObjectPropertyDesc(Par(1)))
GetDevicePropDesc == Answer("GetDevicePropDesc", DevicePropertyDesc(Par(1)))

\* The size that getThumbnail allocates is not initialised: the allocation may fail.  The data
\* container that doGetThumb writes by itself has no field, which leaves the host with what it
\* has had since its request, an empty payload.
GetThumb ==
  \E rc \in {"OK", "GENERAL_ERROR"} : Answer("GetThumb", <<rc, <<>>>>)

Unsupported == Answer("Skip", <<"OPERATION_NOT_SUPPORTED", <<>>>>)

\* A text read from what is no text is some text.
TextOf(r, i) == IF r.ok THEN r.out[i] ELSE Char(103)

\* setObjectPropertyValue: the name under which the object goes from now on.
Rename(h, name) == db' = [db EXCEPT ![h].name = name]

\* Only the name may be set; rename() of the card may fail.  The new parent is read and dropped.
SetObjectPropValue ==
  LET name == TextOf(Read(<<STR>>, data), 1)
      renames == Par(1) \in DOMAIN db /\ Par(2) = FileName
      refusal == IF Par(1) \in {0, All} THEN "INVALID_OBJECT_HANDLE"
                 ELSE IF Par(2) \notin {FileName, Parent} THEN "OPERATION_NOT_SUPPORTED"
                 ELSE IF Par(1) \notin DOMAIN db THEN "GENERAL_ERROR"
                 ELSE "OPERATION_NOT_SUPPORTED"
  IN  /\ Handle("SetObjectPropValue")
      /\ \/ /\ renames /\ writes < MaxWrites
            /\ Rename(Par(1), name)
            /\ card' = [card EXCEPT ![Par(1)].name = name]
            /\ Reply("OK", <<>>, <<>>) /\ writes' = writes + 1 /\ UNCHANGED session
         \/ renames /\ Reply("DEVICE_BUSY", <<>>, <<>>) /\ Unchanging
         \/ ~renames /\ Reply(refusal, <<>>, <<>>) /\ Unchanging

\* The items of ObjectInfo that doSendObjectInfo reads; the keywords it leaves.
Announced(payload) ==
  LET r == Read(Front(ObjectLayout), payload)
      number(i) == IF r.ok THEN r.out[i] ELSE 1
  IN  [format |-> number(2), size |-> number(4), name |-> TextOf(r, 16),
       modified |-> IF r.ok THEN TimeOf(r.out[18], 0) ELSE 0]

FreeSpace == Blocks[2] - 1024
MaxFile   == All  \* 4 GiB - 1

\* The objects d and a new one.
With(d, h, entry) == [g \in DOMAIN d \cup {h} |-> IF g = h THEN entry ELSE d[g]]

\* doSendObjectInfo: an entry for the object that is to come, if there is room on the card, whoever
\* else fills it.  mkdir may fail when the entry of the directory is already made.
SendObjectInfo ==
  LET a == Announced(data)
      h == Cardinality(DOMAIN db) + 2
      parent == IF Par(2) = All THEN 0 ELSE Par(2)
      refusal == IF ~GetStorage(Par(1)) THEN "INVALID_STORAGE_ID"
                 ELSE IF Par(2) = 0 THEN "INVALID_OBJECT_HANDLE"
                 ELSE IF Par(2) # All /\ Par(2) \notin DOMAIN db THEN "GENERAL_ERROR"
                 ELSE IF Par(2) # All /\ db[Par(2)].format # Folder THEN "INVALID_PARENT_OBJECT"
                 ELSE IF a.size > FreeSpace THEN "STORAGE_FULL"
                 ELSE IF a.size = MaxFile THEN "OBJECT_TOO_LARGE" ELSE "OK"
      entry == [Entry(parent, a.format, a.size, a.name, a.modified) EXCEPT !.storage = Par(1)]
  IN  /\ Handle("SendObjectInfo")
      /\ \/ Reply(IF refusal = "OK" THEN "STORAGE_FULL" ELSE refusal, <<>>, <<>>) /\ Unchanging
         \/ /\ refusal = "OK" /\ h <= MaxHandle /\ writes < MaxWrites /\ writes' = writes + 1
            /\ db' = With(db, h, entry)
            /\ \/ card' = With(card, h, entry) /\ Reply("OK", <<Par(1), parent, h>>, <<>>)
               \/ a.format = Folder /\ Reply("GENERAL_ERROR", <<>>, <<>>) /\ UNCHANGED card
            /\ UNCHANGED session

Handler ==
  \/ GetDeviceInfo \/ OpenSession \/ CloseSession \/ GetStorageIDs \/ GetStorageInfo
  \/ GetObjectPropsSupported \/ GetObjectHandles \/ GetNumObjects \/ GetObjectReferences
  \/ SetObjectReferences \/ GetObjectPropValue \/ SetObjectPropValue \/ GetDevicePropValue
  \/ SetDevicePropValue \/ ResetDevicePropValue \/ GetObjectPropList \/ GetObjectInfo
  \/ GetObjectPropDesc \/ GetDevicePropDesc \/ GetThumb \/ SendObjectInfo \/ Unsupported

-----------------------------------------------------------------------------
(* The host.                                                               *)

\* A text as a host sends it.
HostText(units) ==
  <<Field(1, Len(units) + 1)>> \o [i \in DOMAIN units |-> Field(2, units[i])] \o <<Field(2, 0)>>

ObjectInfoSent(format, size, units, modified) ==
  Write([i \in 1..15 |-> <<ObjectLayout[i], CASE i = 1 -> Storage [] i = 2 -> format
                                             [] i = 4 -> size [] OTHER -> 0>>])
  \o HostText(units) \o <<Field(1, 0)>> \o HostText(<<48 + modified>>) \o <<Field(1, 0)>>

HandlesAsked == {0, All} \cup 2..(MaxHandle + 1)
Properties   == Range(ObjectProperties) \cup {Width}

Ask1(op, S) == {[op |-> op, par |-> <<x>>, payload |-> <<>>] : x \in S}
Requests ==
  {[op |-> op, par |-> <<>>, payload |-> <<>>] :
     op \in {"GetDeviceInfo", "CloseSession", "GetStorageIDs", "Skip"}}
  \cup Ask1("OpenSession", {1}) \cup Ask1("GetStorageInfo", {0, Storage, Storage + 1})
  \cup Ask1("GetObjectPropsSupported", {File}) \cup Ask1("GetObjectReferences", HandlesAsked)
  \cup Ask1("GetObjectInfo", HandlesAsked) \cup Ask1("GetThumb", {3})
  \cup Ask1("GetObjectHandles", {Storage}) \cup Ask1("GetNumObjects", {Storage})
  \cup Ask1("GetDevicePropValue", {Friendly, FileName})
  \cup Ask1("GetDevicePropDesc", {Partner, FileName})
  \cup Ask1("ResetDevicePropValue", {Friendly})
  \cup {[op |-> "GetObjectPropDesc", par |-> <<p, File>>, payload |-> <<>>] :
          p \in Properties \cup {Friendly}}
  \cup {[op |-> op, par |-> <<s, f, h>>, payload |-> <<>>] :
          op \in {"GetObjectHandles", "GetNumObjects"}, s \in {Storage, Storage + 1, All},
          f \in {0, Folder}, h \in {0, 2, All}}
  \cup {[op |-> "GetObjectPropValue", par |-> <<h, p>>, payload |-> <<>>] :
          h \in HandlesAsked, p \in Properties}
  \cup {[op |-> "GetObjectPropList", par |-> <<h, 0, p, g, d>>, payload |-> <<>>] :
          h \in {0, 2, 3, All}, p \in {0, FileName, Modified, NonConsumed, All},
          g \in {0}, d \in {0, 1, 2, All}}
  \cup {[op |-> "GetObjectPropList", par |-> <<2, 0, All, 1, 0>>, payload |-> <<>>]}
  \cup {[op |-> "SetDevicePropValue", par |-> <<Friendly>>, payload |-> HostText(<<97>>)],
        [op |-> "SetObjectReferences", par |-> <<2>>, payload |-> Put(AUINT32, <<3, 4>>)]}
  \cup {[op |-> "SetObjectPropValue", par |-> <<h, FileName>>, payload |-> HostText(n)] :
          h \in {2, 4}, n \in HostNames}
  \cup {[op |-> "SetObjectPropValue", par |-> <<h, FileName>>, payload |-> HostText(<<97>>)] :
          h \in {0, MaxHandle + 1}}
  \cup {[op |-> "SetObjectPropValue", par |-> <<2, Parent>>, payload |-> Put(UINT32, 0)]}
  \cup {[op |-> "SendObjectInfo", par |-> <<x[1], x[2]>>,
         payload |-> ObjectInfoSent(x[3], x[4], x[5], 5)] :
          x \in ({<<Storage, 2, File, 1, n>> : n \in HostNames}
                 \cup {<<Storage, h, File, 1, <<97>>>> : h \in {0, 3, MaxHandle + 1}}
                 \cup {<<Storage + 1, All, File, 1, <<97>>>>, <<Storage, All, Folder, 0, <<97>>>>,
                       <<Storage, All, File, All, <<97>>>>})}

Container(kind) ==
  [kind |-> kind, op |-> host.op, tid |-> host.tid, par |-> host.par, payload |-> host.payload]

Ask ==
  /\ host.phase = "idle" /\ Len(wire) < 2
  /\ \E r \in Requests :
       /\ rare = 0 \/ r.op \in TroubleOps
       /\ LET tid == (host.tid + 1) % Tids IN
          /\ host' = [phase |-> IF r.op \in DataIn THEN "sending" ELSE "waiting", op |-> r.op,
                      par |-> r.par, payload |-> r.payload, heard |-> Nothing, tid |-> tid]
          /\ wire' = Append(wire, [kind |-> "request", op |-> r.op, tid |-> tid, par |-> r.par,
                                   payload |-> <<>>])
  /\ UNCHANGED <<pc, req, data, resp, session, db, card, writes, rare>>

SendPayload ==
  /\ host.phase = "sending" /\ Len(wire) < 2
  /\ wire' = Append(wire, Container("data"))
  /\ host' = [host EXCEPT !.phase = "waiting"]
  /\ UNCHANGED <<pc, req, data, resp, session, db, card, writes, rare>>

Forget == host' = Idle(host.tid)

Conclude ==
  /\ host.phase = "done" /\ Forget
  /\ UNCHANGED <<pc, req, data, resp, session, db, card, wire, writes, rare>>

\* The host stops waiting; what it has sent stays in the endpoint or is cancelled.
GiveUp ==
  /\ host.phase \in {"sending", "waiting"}
  /\ \/ pc = "request" /\ wire = <<>> /\ UNCHANGED rare
     \/ rare < MaxRare /\ rare' = rare + 1 /\ host.op \in TroubleOps
  /\ Forget /\ wire' \in {wire, <<>>}
  /\ UNCHANGED <<pc, req, data, resp, session, db, card, writes>>

Next ==
  \/ Receive \/ ReceiveData \/ DataLate \/ Handler \/ SendData \/ Respond \/ WriteFails
  \/ Ask \/ SendPayload \/ Conclude \/ GiveUp

Spec == Init /\ [][Next]_vars

-----------------------------------------------------------------------------
(* Properties.                                                             *)

\* Every variable has its type; mData holds something only between a read and a response.
TypeOK ==
  /\ pc \in {"request", "data", "handle", "send", "respond"}
  /\ pc = "request" <=> req = Nothing
  /\ \A i \in DOMAIN data : data[i][1] \in {1, 2, 4} /\ data[i][2] \in 0..(Modulus(data[i][1]) - 1)
  /\ session \in {Nothing, 1}
  /\ DOMAIN card \subseteq DOMAIN db /\ DOMAIN db \subseteq 2..MaxHandle
  /\ \A h \in DOMAIN db : DOMAIN db[h] = {"storage", "parent", "format", "size", "name", "modified"}
  /\ Len(wire) <= 2 /\ \A i \in DOMAIN wire : wire[i].kind \in {"request", "data"}
  /\ host.phase \in {"idle", "sending", "waiting", "done"} /\ host.tid \in 0..(Tids - 1)
  /\ writes \in 0..MaxWrites /\ rare \in 0..MaxRare

Told == host.phase = "done"

\* A response the host takes for the answer to its request was made for that request: the same
\* operation, the parameters it sent, and, if it sent data, with that data and no other.  Data that
\* comes after its second, and is then read as a request, must not be answered in the name of a
\* transaction the host still waits for (run, handleRequest).
AnswersItsRequest ==
  Told => LET of == host.heard.of IN
          /\ of.op = host.op
          /\ SubSeq(of.par, 1, Len(host.par)) = host.par
          /\ host.op \in DataIn => of.payload = host.payload

\* The responder waits for a request while the host waits for a response, and nothing is under way
\* between them, only if something went wrong before.
NoneUnanswered ==
  pc = "request" /\ wire = <<>> /\ host.phase = "waiting" => rare > 0

\* What the codec carries: texts without characters of four bytes, short enough for their count.
Carried(name) == BufferOf(name).count < Byte - 1 /\ \A i \in DOMAIN name : Utf8Len(name[i][1]) < 4

Fits(e) == Carried(e.name) /\ e.size < Long

\* The payload is exactly these values of these types.
Says(layout, values) ==
  LET r == Read(layout, host.payload) IN r.ok /\ r.in = <<>> /\ r.out = values

Answered(op) == Told /\ host.op = op /\ host.heard.rc = "OK"

\* What a host reads out of a description, with the readers of the source, is what the card holds
\* or what the host made of it: the device, the storage, an object, a property of it, the objects
\* in a directory (doGetDeviceInfo, doGetStorageInfo, doGetObjectInfo, the tables of
\* SwitchMtpDatabase and the codec under them).  Texts the codec does not carry and sizes of 4 GiB
\* are excepted, and so is the property that is announced and sent without a value.
DescriptionsReadBack ==
  LET h == host.par[1] IN
  /\ Answered("GetDeviceInfo") => Says(DeviceLayout, [i \in DOMAIN DeviceInfo |-> DeviceInfo[i][2]])
  /\ Answered("GetStorageInfo") => Says(StorageLayout, [i \in DOMAIN StorageInfo |-> StorageInfo[i][2]])
  /\ Answered("GetObjectInfo") /\ h \in DOMAIN card /\ Fits(card[h]) =>
       LET r == Read(ObjectLayout, host.payload)
           e == card[h]
       IN  /\ r.ok /\ r.in = <<>>
           /\ <<r.out[1], r.out[2], r.out[4], r.out[12], r.out[13], r.out[16]>>
              = <<Storage, e.format, e.size, e.parent, AssociationType(e), e.name>>
           /\ TimeOf(r.out[17], Nothing) = Nothing /\ TimeOf(r.out[18], Nothing) = e.modified
  /\ Answered("GetObjectPropValue") /\ h \in DOMAIN card /\ host.par[2] # NonConsumed
     /\ Fits(card[h]) =>
       Says(<<DescribedType[host.par[2]]>>, <<ValueOf(host.par[2], h, card[h])>>)
  /\ Answered("GetObjectPropDesc") =>
       LET t == DescribedType[h] IN
       LET r == ReadProperty(host.payload) IN
       /\ r.ok /\ r.in = <<>>
       /\ <<r.out[1], r.out[2], r.out[4]>> = <<h, t, DefaultValue(t)>>
       /\ r.out[3] = 1 <=> h \in Writeable
  /\ Answered("GetObjectHandles") /\ Len(host.par) = 3 /\ h = Storage =>
       LET under == IF host.par[3] = All THEN 0 ELSE host.par[3]
           r == Read(<<AUINT32>>, host.payload)
       IN  /\ r.ok
           /\ Range(r.out[1]) \cap DOMAIN card =
                {g \in DOMAIN card : card[g].parent = under /\ host.par[2] \in {0, card[g].format}}

\* One element of a list: handle, property, type, then a value of that type.
ReadElement(r) ==
  LET h == Get(Get(Get(r, UINT32), UINT16), UINT16)
      t == h.out[Len(h.out)]
  IN  IF h.ok /\ t \in {UINT16, UINT32, UINT128, STR} THEN Get(h, t) ELSE [h EXCEPT !.ok = FALSE]

\* A list of properties tells the truth: each element that the count at its head promises is of an
\* object asked for, of a property asked for, with the type and the value of that property; and a
\* list of one property has all the objects.  Excepted: the date of the last change, which goes by
\* another code, the last property, after which the source leaves the loop, the list of all
\* properties of more than two objects, whose count promises more than is sent
\* (getObjectPropertyList).
ListTellsTruth ==
  Answered("GetObjectPropList") =>
    LET property == host.par[3]
        asked == {h \in DOMAIN db : IF host.par[5] = 0 THEN h = host.par[1] ELSE db[h].parent = host.par[1]}
        head == Read(<<UINT32>>, host.payload)
        count == head.out[1]
        list[i \in 0..count] == IF i = 0 THEN Having(head, <<>>) ELSE ReadElement(list[i - 1])
        el(i) == SubSeq(list[count].out, 4 * i - 3, 4 * i)
    IN  (asked \subseteq DOMAIN card /\ \A h \in asked : Fits(card[h])) =>
        \/ property \in {NonConsumed, All} /\ Cardinality(asked) > (IF property = All THEN 2 ELSE 1)
        \/ /\ list[count].ok
           /\ \A i \in 1..count :
                /\ el(i)[1] \in asked
                /\ property \in {All, el(i)[2]} \/ property = Modified
                /\ \/ /\ el(i)[3] = DescribedType[el(i)[2]]
                      /\ el(i)[4] = ValueOf(el(i)[2], el(i)[1], card[el(i)[1]])
                   \/ el(i)[2] = Created /\ el(i)[4] = Date(card[el(i)[1]].modified)
           /\ property # All => {el(i)[1] : i \in 1..count} = asked

=============================================================================
