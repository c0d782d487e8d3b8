------------------------------- MODULE Requests -------------------------------
(***************************************************************************)
(* What the methods of the resource clients do with what they are given:      *)
(* which procedure each calls, what it checks and what it puts into the       *)
(* request.  A method sets a field                                           *)
(*   always    whatever the value                                            *)
(*   nonzero   unless the value is the zero value                            *)
(*   present   unless it is nil                                              *)
(*   positive  if it is a positive number                                    *)
(***************************************************************************)
EXTENDS Signatures, FiniteSets

Row(procedure, always, nonzero, present) ==
    [procedure |-> procedure, stream |-> FALSE,
     always |-> always, nonzero |-> nonzero, present |-> present, positive |-> {}]

Stream(procedure, filter) ==
    [procedure |-> procedure, stream |-> TRUE,
     always |-> {}, nonzero |-> filter, present |-> {}, positive |-> {}]

\* applyListFilter.
Listing(procedure, always) ==
    [Row(procedure, always, {"pageToken"}, {"isFromMe", "isRead", "before", "after"})
        EXCEPT !.positive = {"pageSize"}]

Id == {"clientMessageId"}
Target == {"chat", "message"}
Part == {"partIndex"}
Reply_NoPart == {"replyTo"}

Reply == {"replyTo", "replyPart"}
Format == {"formatKind", "formatStart", "formatLength"}

MessageSends == [
    SendText |-> Row("SendTextMessage", {"chat", "text"} \cup Format,
        {"subject", "effect", "dataDetection", "linkPreview", "formatting", "textEffect"}
        \cup Id, Reply),
    SendAttachment |-> Row("SendAttachmentMessage", {"chat", "attachment"},
        {"effect", "isAudioMessage"} \cup Id, Reply),
    SendMultipart |-> Row("SendMultipartMessage", {"chat"} \cup Format,
        {"subject", "effect", "dataDetection", "partText", "partAttachment",
         "partAttachmentName", "partMention", "formatting", "textEffect"} \cup Id,
        Reply \cup {"bubbleIndex"}),
    SendCustomizedMiniApp |-> Row("SendCustomizedMiniAppMessage",
        {"chat", "teamId", "extensionBundleId", "appName", "url"},
        {"caption", "subcaption", "trailingCaption", "trailingSubcaption",
         "imageTitle", "imageSubtitle", "summary", "image"} \cup Id, {"appStoreId"})]

MessageChanges == [
    Edit |-> Row("EditMessage", Target \cup {"text"}, {"backwardCompatText"} \cup Id, Part),
    Unsend |-> Row("UnsendMessage", Target, Id, Part),
    AddReaction |-> Row("SetReaction", Target \cup {"kind", "isSet"}, {"emoji"} \cup Id, Part),
    RemoveReaction |-> Row("SetReaction", Target \cup {"kind", "isSet"}, {"emoji"} \cup Id, Part),
    PlaceSticker |-> Row("PlaceSticker", Target \cup {"sticker", "x", "y"}, Id,
        Part \cup {"scale", "rotation", "width"}),
    NotifySilenced |-> Row("NotifySilencedMessage", Target, Id, {})]

MessageReads == [
    GetMessage |-> Row("GetMessage", {"message"}, {}, {}),
    ListRecent |-> Listing("ListRecentMessages", {}),
    ListInChat |-> Listing("ListChatMessages", {"chat"}),
    GetEmbeddedMedia |-> Row("GetEmbeddedMedia", Target, {}, {}),
    SubscribeMessages |-> Stream("SubscribeMessageEvents", {"chat"})]

\* An initial message that is built has a text, be it empty.
ChatMethods == [
    Count |-> Row("GetChatCount", {}, {"includeArchived"}, {}),
    CreateChat |-> Row("CreateChat", {"addresses", "service", "text"},
        {"attributedBody", "subject", "effect"} \cup Id, {}),
    GetChat |-> Row("GetChat", {"chat"}, {}, {}),
    HasBackground |-> Row("HasBackground", {"chat"}, {}, {}),
    SetBackground |-> Row("SetBackground", {"chat", "data"}, {}, {}),
    RemoveBackground |-> Row("RemoveBackground", {"chat"}, {}, {}),
    MarkRead |-> Row("MarkChatRead", {"chat"}, {}, {}),
    ShareContactInfo |-> Row("ShareContactInfo", {"chat"}, {}, {}),
    SetTyping |-> Row("SetTyping", {"chat", "isTyping"}, {}, {}),
    SubscribeChats |-> Stream("SubscribeChatEvents", {"chat"})]

GroupMethods == [
    SetDisplayName |-> Row("SetDisplayName", {"chat", "name"}, Id, {}),
    AddParticipants |-> Row("AddParticipants", {"chat", "addresses"}, Id, {}),
    RemoveParticipants |-> Row("RemoveParticipants", {"chat", "addresses"}, Id, {}),
    Leave |-> Row("LeaveGroup", {"chat"}, Id, {}),
    SetIcon |-> Row("SetIcon", {"chat", "data"}, Id, {}),
    GetIcon |-> Row("GetIcon", {"chat"}, {}, {}),
    RemoveIcon |-> Row("RemoveIcon", {"chat"}, Id, {}),
    SubscribeGroups |-> Stream("SubscribeGroupEvents", {"chat"})]

PollMethods == [
    CreatePoll |-> Row("CreatePoll", {"chat", "title", "choices"}, Id, {}),
    GetPoll |-> Row("GetPoll", {"poll"}, {}, {}),
    Vote |-> Row("VotePoll", {"poll", "option"}, Id, {}),
    Unvote |-> Row("UnvotePoll", {"poll"}, Id, {}),
    AddOption |-> Row("AddPollOption", {"poll", "text"}, Id, {}),
    SubscribePolls |-> Stream("SubscribePollEvents", {"poll"})]

LocationMethods == [
    ListLocations |-> Row("ListSharedFriendLocations", {}, {}, {}),
    GetLocation |-> Row("GetSharedFriendLocation", {"address"}, {}, {}),
    RequestLocation |-> Row("RequestFriendLocationSharing", {"chat", "address"}, Id, {}),
    WatchLocations |-> Stream("WatchSharedFriendLocations", {"address"})]

AttachmentMethods == [
    GetAttachment |-> Row("GetAttachmentInfo", {"attachment"}, {}, {}),
    Upload |-> Row("UploadAttachment", {"fileName", "data", "companionData", "companionKind"},
        {}, {"companion"}),
    Download |-> [Stream("DownloadAttachment", {}) EXCEPT !.always = {"attachment"}]]

AddressMethods == [
    GetAddress |-> Row("GetAddressInfo", {"address"}, {}, {}),
    IsFocusSilenced |-> Row("GetFocusStatus", {"address"}, {}, {}),
    IsIMessageAvailable |-> Row("GetIMessageAvailability", {"address"}, {}, {})]

EventMethods == [CatchUp |-> Stream("CatchUpEvents", {"afterSequence"})]

Tables == {MessageSends, MessageChanges, MessageReads, ChatMethods, GroupMethods,
           PollMethods, LocationMethods, AttachmentMethods, AddressMethods, EventMethods}

Method == [m \in Methods |-> (CHOOSE table \in Tables : m \in DOMAIN table)[m]]

\* What the code of a method ever sets.
Fields(m) ==
    Method[m].always \cup Method[m].nonzero \cup Method[m].present \cup Method[m].positive

-----------------------------------------------------------------------------
(* Kinds that are written differently in Go and on the wire.                *)

SettableReactions == [love |-> "LOVE", like |-> "LIKE", dislike |-> "DISLIKE",
    laugh |-> "LAUGH", emphasize |-> "EMPHASIZE", question |-> "QUESTION", emoji |-> "EMOJI"]

ReactionKindFromProto(wire) ==
    IF wire = "STICKER" THEN "sticker"
    ELSE IF \E k \in DOMAIN SettableReactions : SettableReactions[k] = wire
    THEN CHOOSE k \in DOMAIN SettableReactions : SettableReactions[k] = wire
    ELSE "unknown"

CompanionKindToProto(kind) ==
    IF kind = "live-photo-video" THEN "LIVE_PHOTO_VIDEO" ELSE "UNSPECIFIED"

CompanionKindFromProto(wire) ==
    IF wire = "LIVE_PHOTO_VIDEO" THEN "live-photo-video" ELSE "unknown"

-----------------------------------------------------------------------------
(* Building a request.                                                      *)

\* setReaction's checks before it builds anything.
Rejects(m, input) ==
    /\ m \in {"AddReaction", "RemoveReaction"}
    /\ \/ input["kind"][1] \notin DOMAIN SettableReactions
       \/ input["kind"] = <<"emoji">> /\ input["emoji"] = Zero

\* A field of a submessage is sent with it: CreateChat builds the initial
\* message for any of its four parameters, the others for the one they are in.
InitialMessage == {"text", "attributedBody", "subject", "effect"}

Holders(m, field) ==
    CASE m = "CreateChat" /\ field \in InitialMessage -> InitialMessage
      [] field \in DOMAIN Within -> {Within[field]}
      [] OTHER -> {}

Built(m, input, field) ==
    Holders(m, field) = {} \/ \E g \in Holders(m, field) : input[g] # Unset(g)

Sets(m, input, field) ==
    \/ field \in Method[m].always
    \/ field \in Method[m].nonzero /\ input[field] # Zero
         /\ (field = "textEffect" => input["formatKind"] = <<"effect">>)
    \/ field \in Method[m].present /\ input[field] # Nil
    \/ field \in Method[m].positive /\ input[field][2] > 0

IsSent(m, input, field) == Sets(m, input, field) /\ Built(m, input, field)

\* The int32 that a Go int is converted to.
Int32(n) == ((n + Half32) % (2 * Half32)) - Half32

Encode(m, input, field) ==
    CASE field = "isSet" -> IF m = "AddReaction" THEN Some ELSE Zero
      [] field = "service" -> <<"IMESSAGE">>
      [] field = "kind" -> <<SettableReactions[input[field][1]]>>
      [] field = "companionKind" -> <<CompanionKindToProto(input[field][1])>>
      [] field \in Ints \cup IntPointers -> Number(Int32(input[field][2]))
      [] OTHER -> input[field]

Request(m, input) ==
    [field \in {f \in Fields(m) : IsSent(m, input, f)} |-> Encode(m, input, field)]

MutatingProcedures_WithId ==
    {Method[m].procedure : m \in {n \in Methods : "clientMessageId" \in Parameters[n]}}

\* The procedures that receive an idempotency key.
MutatingProcedures == {
    "SendTextMessage", "SendAttachmentMessage", "SendMultipartMessage",
    "SendMiniAppMessage", "SendCustomizedMiniAppMessage", "EditMessage",
    "UnsendMessage", "SetReaction", "PlaceSticker", "NotifySilencedMessage",
    "CreateChat", "MarkChatRead", "SetBackground", "RemoveBackground",
    "ShareContactInfo", "SetTyping", "SetDisplayName", "AddParticipants",
    "RemoveParticipants", "LeaveGroup", "SetIcon", "RemoveIcon",
    "UploadAttachment", "CreatePoll", "VotePoll", "UnvotePoll", "AddPollOption",
    "RequestFriendLocationSharing"}

=============================================================================
