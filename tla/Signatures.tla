------------------------------ MODULE Signatures ------------------------------
(***************************************************************************)
(* What a program can give to a method of a resource client, as the Go        *)
(* signatures and the option types say, whatever the methods do with it.  A    *)
(* struct is flattened into its fields, the names of which are unique; a list  *)
(* of formatting runs or of parts has one element.                           *)
(*                                                                         *)
(* A value is a tuple: <<"nil">>, the zero value <<"">> of a string, a list,   *)
(* a boolean or a struct, any other <<"value">>, the name of a kind, or a      *)
(* number.                                                                  *)
(***************************************************************************)
EXTENDS Integers

CONSTANTS Half32,   \* an int32 is one of -Half32..Half32 - 1 (2^31 in Go)
          Numbers   \* numbers a program gives

ASSUME NumbersAssumption == Half32 \in Nat \ {0} /\ Numbers \subseteq Int

Nil == <<"nil">>
Zero == <<"">>
Some == <<"value">>
Number(n) == <<"number", n>>

-----------------------------------------------------------------------------
(* The option types.                                                        *)

IdempotencyOptions == {"clientMessageId"}
PartOptions == {"partIndex"} \cup IdempotencyOptions
EditOptions == {"backwardCompatText"} \cup PartOptions
ReplyTarget == {"replyTo", "replyPart"}
TextFormatInput == {"formatting", "formatKind", "formatStart", "formatLength", "textEffect"}
SendAttachmentOptions == {"effect", "isAudioMessage"} \cup ReplyTarget \cup IdempotencyOptions
SendMultipartOptions ==
    {"subject", "effect", "dataDetection"} \cup ReplyTarget \cup IdempotencyOptions
SendTextOptions == {"linkPreview"} \cup SendMultipartOptions \cup TextFormatInput
MessagePart ==
    {"partText", "partAttachment", "partAttachmentName", "partMention", "bubbleIndex"}
    \cup TextFormatInput
Reaction == {"kind", "emoji"}
StickerInput == {"sticker", "x", "y", "scale", "rotation", "width"}
MiniAppLayout == {"caption", "subcaption", "trailingCaption", "trailingSubcaption",
                  "imageTitle", "imageSubtitle", "summary", "image"}
CustomizedMiniAppMessage ==
    {"appName", "extensionBundleId", "teamId", "url", "appStoreId"} \cup MiniAppLayout
MessageListFilter == {"before", "after", "isFromMe", "isRead", "pageSize", "pageToken"}
CreateChatOptions == {"text", "attributedBody", "effect", "subject"} \cup IdempotencyOptions
AttachmentInput == {"fileName", "data", "companion", "companionData", "companionKind"}

\* The pointer types among them, those to a number apart, and the numbers.
Pointers == {"replyTo", "before", "after", "isFromMe", "isRead", "scale", "rotation",
             "width", "appStoreId", "companion"}
IntPointers == {"replyPart", "partIndex", "bubbleIndex"}
Ints == {"pageSize", "formatStart", "formatLength"}

\* Fields of a struct, or of a list's element, that need not be there.
Within == [replyPart |-> "replyTo", companionData |-> "companion",
           companionKind |-> "companion", formatKind |-> "formatting",
           formatStart |-> "formatting", formatLength |-> "formatting",
           textEffect |-> "formatting", partAttachmentName |-> "partAttachment"]

\* The kinds of the package; "" stands for any other string.
ReactionKinds == {"love", "like", "dislike", "laugh", "emphasize", "question",
                  "emoji", "sticker", "unknown", ""}
CompanionKinds == {"live-photo-video", "unknown", ""}
FormatKinds == {"bold", "effect", ""}

Values(field) ==
    CASE field = "kind" -> {<<k>> : k \in ReactionKinds}
      [] field = "companionKind" -> {<<k>> : k \in CompanionKinds}
      [] field = "formatKind" -> {<<k>> : k \in FormatKinds}
      [] field \in Ints -> {Number(n) : n \in Numbers}
      [] field \in IntPointers -> {Nil} \cup {Number(n) : n \in Numbers}
      [] field \in Pointers -> {Nil, Zero, Some}
      [] OTHER -> {Zero, Some}

\* A parameter that the program does not mention.
Unset(field) ==
    CASE field \in Pointers \cup IntPointers -> Nil
      [] field \in Ints -> Number(0)
      [] OTHER -> Zero

-----------------------------------------------------------------------------
(* The methods.                                                             *)

MessageSignatures == [
    SendText |-> {"chat", "text"} \cup SendTextOptions,
    SendAttachment |-> {"chat", "attachment"} \cup SendAttachmentOptions,
    SendMultipart |-> {"chat"} \cup MessagePart \cup SendMultipartOptions,
    SendCustomizedMiniApp |-> {"chat"} \cup CustomizedMiniAppMessage \cup IdempotencyOptions,
    Edit |-> {"chat", "message", "text"} \cup EditOptions,
    Unsend |-> {"chat", "message"} \cup PartOptions,
    AddReaction |-> {"chat", "message"} \cup Reaction \cup PartOptions,
    RemoveReaction |-> {"chat", "message"} \cup Reaction \cup PartOptions,
    PlaceSticker |-> {"chat", "message"} \cup StickerInput \cup PartOptions,
    NotifySilenced |-> {"chat", "message"} \cup IdempotencyOptions,
    GetMessage |-> {"message"},
    ListRecent |-> MessageListFilter,
    ListInChat |-> {"chat"} \cup MessageListFilter,
    GetEmbeddedMedia |-> {"chat", "message"},
    SubscribeMessages |-> {"chat"}]

ChatSignatures == [
    Count |-> {"includeArchived"},
    CreateChat |-> {"addresses"} \cup CreateChatOptions,
    GetChat |-> {"chat"}, HasBackground |-> {"chat"}, RemoveBackground |-> {"chat"},
    SetBackground |-> {"chat", "data"}, SetTyping |-> {"chat", "isTyping"},
    MarkRead |-> {"chat"}, ShareContactInfo |-> {"chat"}, SubscribeChats |-> {"chat"},
    SetDisplayName |-> {"chat", "name"} \cup IdempotencyOptions,
    AddParticipants |-> {"chat", "addresses"} \cup IdempotencyOptions,
    RemoveParticipants |-> {"chat", "addresses"} \cup IdempotencyOptions,
    Leave |-> {"chat"} \cup IdempotencyOptions,
    SetIcon |-> {"chat", "data"} \cup IdempotencyOptions,
    GetIcon |-> {"chat"},
    RemoveIcon |-> {"chat"} \cup IdempotencyOptions,
    SubscribeGroups |-> {"chat"}]

OtherSignatures == [
    CreatePoll |-> {"chat", "title", "choices"} \cup IdempotencyOptions,
    GetPoll |-> {"poll"},
    Vote |-> {"poll", "option"} \cup IdempotencyOptions,
    Unvote |-> {"poll"} \cup IdempotencyOptions,
    AddOption |-> {"poll", "text"} \cup IdempotencyOptions,
    SubscribePolls |-> {"poll"},
    ListLocations |-> {},
    GetLocation |-> {"address"},
    RequestLocation |-> {"chat", "address"} \cup IdempotencyOptions,
    WatchLocations |-> {"address"},
    GetAttachment |-> {"attachment"}, Download |-> {"attachment"},
    Upload |-> AttachmentInput,
    GetAddress |-> {"address"}, IsFocusSilenced |-> {"address"},
    IsIMessageAvailable |-> {"address"},
    CatchUp |-> {"afterSequence"}]

Signatures == {MessageSignatures, ChatSignatures, OtherSignatures}

Methods == UNION {DOMAIN methods : methods \in Signatures}

Parameters == [m \in Methods |-> (CHOOSE methods \in Signatures : m \in DOMAIN methods)[m]]

=============================================================================
