------------------------------ MODULE Conversion ------------------------------
(***************************************************************************)
(* What the client makes of what the server sends: frames of a stream become *)
(* events or are dropped, protobuf messages become values.  A wire field is   *)
(* "absent", "zero" or "value"; a Go field without it is nil if it is a       *)
(* pointer and the zero value if not.                                         *)
(***************************************************************************)
EXTENDS Integers, Sequences, SequencesExt

-----------------------------------------------------------------------------
(* Values: the pointer fields of a type; "plain" stands for the fields that   *)
(* are copied by their getter.  Lists are sorted here or kept in order.       *)

Shape(pointers, sorted, kept) ==
    [fields |-> pointers \cup {"plain"}, sorted |-> sorted, kept |-> kept]

Message == Shape(
    {"dateRead", "dateDelivered", "dateEdited", "dateRetracted", "datePlayed",
     "dateExpressiveSendPlayed", "sender", "shareStatus", "shareDirection",
     "chatActionType", "partCount", "reactionTargetPartIndex", "reaction",
     "reactionSelected"},
    {"appliedReactions", "placedStickers"}, {"chatGUIDs"})

Content == Shape({"miniApp"}, {}, {"attachments", "formatting", "mentions"})

MiniApp == Shape({"appName", "url", "sessionId", "appStoreId", "layout"}, {}, {})

Layout == Shape({"caption", "subcaption", "trailingCaption", "trailingSubcaption",
                 "imageTitle", "imageSubtitle", "summary"}, {}, {})

AppliedReaction == Shape({"sender", "targetPartIndex"}, {}, {})

PlacedSticker == Shape({"sender", "sticker", "placement", "targetPartIndex"}, {}, {})

Placement == Shape({"scale", "rotation", "width"}, {}, {})

Chat == Shape({"unreadCount", "lastMessage"}, {}, {"participants"})

CreatedChat == Shape({"initialMessage"}, {}, {})

Poll == Shape({}, {"votes"}, {"options"})

Location == Shape({"latitude", "longitude", "accuracy", "locationTimestamp", "expiresAt"}, {}, {})

Locations == Shape({}, {"locations"}, {})

Attachment == Shape({"companionKind"}, {}, {})

Uploaded == Shape({"companion"}, {}, {})

Address == Shape({}, {}, {"services"})

Page == Shape({}, {}, {"messages"})

Scalar == Shape({}, {}, {})

FieldFromProto(field, wire) ==
    IF wire # "absent" THEN wire ELSE IF field = "plain" THEN "zero" ELSE "nil"

Precedes_ByFirst(list, x, y) == x[1] < y[1]

\* The comparison of a list's items: by two keys, locations by their address.
Precedes(list, x, y) ==
    x[1] < y[1] \/ (list # "locations" /\ x[1] = y[1] /\ x[2] < y[2])

\* slices.SortFunc, which may put equal items in any order.
SortFunc(list, items) ==
    {s \in SetToSeqs(ToSet(items)) :
        \A i, j \in DOMAIN s : i < j => ~Precedes(list, s[j], s[i])}

\* The values that a message of the wire with one list may become.
FromProto(shape, wire) ==
    {[fields |-> [f \in shape.fields |-> FieldFromProto(f, wire.fields[f])], items |-> items] :
        items \in IF wire.list \in shape.sorted THEN SortFunc(wire.list, wire.items)
                  ELSE {wire.items}}

-----------------------------------------------------------------------------
(* Events: the changes of each family, by their names on the wire, and the    *)
(* types they become.                                                        *)

MessageChange == [MessageReceived |-> "MessageReceived", MessageEdited |-> "MessageEdited",
    MessageRead |-> "MessageRead", MessageUnsent |-> "MessageUnsent",
    ReactionAdded |-> "MessageReactionAdded", ReactionRemoved |-> "MessageReactionRemoved",
    StickerPlaced |-> "MessageStickerPlaced"]

ChatChange == [BackgroundChanged |-> "ChatBackgroundChanged",
    BackgroundRemoved |-> "ChatBackgroundRemoved", MarkedRead |-> "ChatMarkedRead",
    Archived |-> "ChatArchived", Unarchived |-> "ChatUnarchived"]

GroupChange == [DisplayNameChanged |-> "GroupDisplayNameChanged",
    ParticipantAdded |-> "GroupParticipantAdded", ParticipantRemoved |-> "GroupParticipantRemoved",
    ParticipantLeft |-> "GroupParticipantLeft", IconChanged |-> "GroupIconChanged",
    IconRemoved |-> "GroupIconRemoved"]

PollChange == [Created |-> "PollCreated", OptionAdded |-> "PollOptionAdded",
    Voted |-> "PollVoted", Unvoted |-> "PollUnvoted"]

Changes == [message |-> MessageChange, chat |-> ChatChange,
            group |-> GroupChange, poll |-> PollChange]

Families == DOMAIN Changes

Dropped == [type |-> "none"]

\* Group and poll changes are wrapped in one type.
TypeOf(family, change) ==
    CASE family = "group" -> "GroupChanged"
      [] family = "poll" -> "PollChanged"
      [] OTHER -> Changes[family][change]

EventFromChange(family, frame) ==
    IF frame.change \notin DOMAIN Changes[family] THEN Dropped
    ELSE [type |-> TypeOf(family, frame.change), change |-> Changes[family][frame.change],
          sequence |-> frame.sequence, actor |-> FieldFromProto("actor", frame.actor),
          targetPartIndex |-> FieldFromProto("targetPartIndex", frame.targetPartIndex)]

\* A live stream: frames of its own family; heartbeats and the unknown are not
\* events.
LiveFromProto(family, frame) ==
    IF frame.payload = family THEN EventFromChange(family, frame) ELSE Dropped

LocationFromProto(frame) ==
    IF frame.payload = "location"
    THEN [type |-> "LocationUpdate", sequence |-> frame.sequence] ELSE Dropped

Chunks == [header |-> "DownloadHeader", primaryChunk |-> "DownloadPrimaryChunk",
           companionChunk |-> "DownloadCompanionChunk"]

ChunkFromProto(frame) ==
    IF frame.payload \in DOMAIN Chunks THEN [type |-> Chunks[frame.payload]] ELSE Dropped

\* The types marked as isCatchUpEvent.
CatchUpEvents ==
    {"MessageReceived", "MessageEdited", "MessageRead", "MessageUnsent",
     "MessageReactionAdded", "MessageReactionRemoved", "MessageStickerPlaced",
     "ChatBackgroundChanged", "ChatBackgroundRemoved", "ChatMarkedRead",
     "ChatArchived", "ChatUnarchived", "GroupChanged", "PollChanged", "CatchupComplete"}

\* asCatchUp drops an event whose type lacks the mark.
AsCatchUp(event) == IF event.type \in CatchUpEvents THEN event ELSE Dropped

CatchUpFromProto_NoSequence(frame) ==
    CASE frame.payload \in Families ->
            AsCatchUp(EventFromChange(frame.payload, [frame EXCEPT !.sequence = 0]))
      [] frame.payload = "complete" ->
            [type |-> "CatchupComplete", sequence |-> frame.sequence]
      [] OTHER -> Dropped

CatchUpFromProto(frame) ==
    CASE frame.payload \in Families -> AsCatchUp(EventFromChange(frame.payload, frame))
      [] frame.payload = "complete" ->
            [type |-> "CatchupComplete", sequence |-> frame.sequence]
      [] OTHER -> Dropped

=============================================================================
