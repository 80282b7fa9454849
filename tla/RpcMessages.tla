---------------------------- MODULE RpcMessages -----------------------------
(***************************************************************************)
(* What the RPC client and the modem number alike: the codes of calls and  *)
(* callbacks, the transaction words, and how a received message is told    *)
(* to be a response, an acknowledgement or unsolicited.                    *)
(*                                                                         *)
(* (Operators named X_Y are deliberate mistakes in X; nothing uses them.)  *)
(***************************************************************************)
EXTENDS Integers

(* The values of rpc_call_ids.call_ids and the keys of                      *)
(* rpc_unsol_table.xmm7360_unsol, as sets of codes.                         *)
call_ids ==
  (1..2) \cup (22..23) \cup (28..29) \cup (31..33) \cup (35..41) \cup
    (48..49) \cup (58..61) \cup (83..85) \cup (92..98) \cup (121..128)
    \cup (166..168) \cup (172..173) \cup (186..187) \cup (189..190) \cup
    (207..208) \cup (211..212) \cup (222..224) \cup (226..227) \cup
    (230..231) \cup (243..244) \cup (266..268) \cup (272..273) \cup
    (276..278) \cup (281..282) \cup (284..285) \cup (287..291) \cup
    (296..300) \cup (303..304) \cup (306..308) \cup (310..311) \cup
    (316..317) \cup (324..326) \cup (340..341) \cup (348..350) \cup
    (352..361) \cup (374..379) \cup (392..394) \cup (407..411) \cup
    (433..445)
  \cup {4, 6, 13, 15, 17, 25, 52, 54, 56, 63, 65, 67, 69, 71, 73, 75, 78,
    81, 110, 113, 115, 118, 130, 136, 141, 144, 146, 148, 150, 152, 154,
    156, 158, 176, 178, 180, 182, 184, 192, 194, 196, 199, 201, 205, 214,
    216, 218, 236, 239, 241, 249, 251, 253, 255, 257, 259, 261, 270, 313,
    320, 322, 328, 330, 332, 334, 336, 338, 343, 346, 381, 383, 385, 387,
    396, 398, 400, 402, 404, 413, 416, 418, 420, 423, 425, 428, 431, 447,
    449, 451, 453, 456}

xmm7360_unsol ==
  (7..12) \cup (18..21) \cup (26..27) \cup (42..47) \cup (50..51) \cup
    (76..77) \cup (79..80) \cup (86..91) \cup (99..109) \cup (111..112)
    \cup (116..117) \cup (119..120) \cup (131..135) \cup (137..140) \cup
    (142..143) \cup (159..165) \cup (169..171) \cup (174..175) \cup
    (197..198) \cup (202..204) \cup (209..210) \cup (219..221) \cup
    (228..229) \cup (232..235) \cup (237..238) \cup (245..248) \cup
    (262..265) \cup (274..275) \cup (279..280) \cup (292..295) \cup
    (301..302) \cup (314..315) \cup (318..319) \cup (344..345) \cup
    (362..373) \cup (388..391) \cup (405..406) \cup (414..415) \cup
    (421..422) \cup (426..427) \cup (429..430) \cup (454..455)
  \cup {3, 5, 14, 16, 24, 30, 34, 53, 55, 57, 62, 64, 66, 68, 70, 72, 74,
    82, 114, 129, 145, 147, 149, 151, 153, 155, 157, 177, 179, 181, 183,
    185, 188, 191, 193, 195, 200, 206, 213, 215, 217, 225, 240, 242, 250,
    252, 254, 256, 258, 260, 269, 271, 283, 286, 305, 309, 312, 321, 323,
    327, 329, 331, 333, 335, 337, 339, 342, 347, 351, 380, 382, 384, 386,
    395, 397, 399, 401, 403, 412, 417, 419, 424, 432, 446, 448, 450, 452}

\* The codes the client compares by name.
UtaModeSetRspCb == 301             \* 0x12d
UtaMsNetIsAttachAllowedIndCb == 108  \* 0x6c

\* The transaction word of a synchronous request, and of an asynchronous one.
SyncTid == 285212928    \* 0x11000100
AsyncTid == 285212929   \* 0x11000101

\* tid_word = 0x11000100 | tid, with tid = 0x11000101 or 0
TidWord(is_async) == IF is_async THEN AsyncTid ELSE SyncTid

AckCode == 2000   \* codes from here on acknowledge an asynchronous request

TypeOf_AckIsResponse(txid, code) ==
  IF txid - (txid % 256) = SyncTid THEN "response" ELSE "unsolicited"
\* handle_message: the type of a message.  (An asynchronous response carries
\* its transaction word a second time, as its first value.)
TypeOf(txid, code) ==
  IF txid = SyncTid THEN "response"
  ELSE IF txid - (txid % 256) # SyncTid THEN "unsolicited"
  ELSE IF code >= AckCode THEN "async_ack" ELSE "response"
=============================================================================
