------------------------------ MODULE IrSlots ------------------------------
(***************************************************************************)
(* The let slots of the bodies, under the names their `const X: u32' have  *)
(* in the source.                                                          *)
(***************************************************************************)
EXTENDS IrCode

A == Let("A")
ACC == Let("ACC")
AT == Let("AT")
AT_WORD_START == Let("AT_WORD_START")
B == Let("B")
B0 == Let("B0")
BACK == Let("BACK")
BASE == Let("BASE")
BASE_OFF == Let("BASE_OFF")
BYTE == Let("BYTE")
B_TMP == Let("B_TMP")
COLON == Let("COLON")
COUNT == Let("COUNT")
CP == Let("CP")
CP_BASE == Let("CP_BASE")
CP_BYTES == Let("CP_BYTES")
CP_LEN == Let("CP_LEN")
CUR == Let("CUR")
CUR_VAL == Let("CUR_VAL")
DAY == Let("DAY")
DEND_DASH == Let("DEND_DASH")
DLABEL_LEN == Let("DLABEL_LEN")
DOMAIN_LEN == Let("DOMAIN_LEN")
DOT_COUNT == Let("DOT_COUNT")
DSTART_DASH == Let("DSTART_DASH")
DST_PAYLOAD == Let("DST_PAYLOAD")
EFFECTIVE_UPPER == Let("EFFECTIVE_UPPER")
END == Let("END")
ENTRY == Let("ENTRY")
FOLDED == Let("FOLDED")
FOLD_TABLE_FIRED == Let("FOLD_TABLE_FIRED")
FOUND == Let("FOUND")
FULL_ENTRY == Let("FULL_ENTRY")
FULL_OUT_LEN == Let("FULL_OUT_LEN")
FULL_SLOT_IDX == Let("FULL_SLOT_IDX")
FWD == Let("FWD")
F_LEN == Let("F_LEN")
HAS_AT == Let("HAS_AT")
HAS_COLON == Let("HAS_COLON")
HI == Let("HI")
I == Let("I")
IA == Let("IA")
IB == Let("IB")
IDX_A == Let("IDX_A")
IDX_B == Let("IDX_B")
IS_DASH_POS == Let("IS_DASH_POS")
IS_DOT == Let("IS_DOT")
IS_MARK == Let("IS_MARK")
IS_TURKISH == Let("IS_TURKISH")
J == Let("J")
KEY == Let("KEY")
KEY_A == Let("KEY_A")
KEY_B == Let("KEY_B")
KEY_BUF == Let("KEY_BUF")
KK == Let("KK")
KL == Let("KL")
KR == Let("KR")
LABEL_ACC == Let("LABEL_ACC")
LAST_START == Let("LAST_START")
LEAP == Let("LEAP")
LEFT == Let("LEFT")
LEN_A == Let("LEN_A")
LEN_B == Let("LEN_B")
LEN_I32 == Let("LEN_I32")
LO == Let("LO")
LOCAL_LEN == Let("LOCAL_LEN")
LOOKUP == Let("LOOKUP")
MATCH == Let("MATCH")
MAXDAY == Let("MAXDAY")
MID == Let("MID")
MISMATCH == Let("MISMATCH")
MONTH == Let("MONTH")
N == Let("N")
NEW_BASE == Let("NEW_BASE")
OK == Let("OK")
OUT_BASE == Let("OUT_BASE")
OUT_COUNT == Let("OUT_COUNT")
OUT_J == Let("OUT_J")
OUT_LEN == Let("OUT_LEN")
OUT_START == Let("OUT_START")
PAYLOAD == Let("PAYLOAD")
PREV_DOT == Let("PREV_DOT")
P_LEN == Let("P_LEN")
RESULT == Let("RESULT")
RESULT_BASE == Let("RESULT_BASE")
RIGHT == Let("RIGHT")
RUN_END == Let("RUN_END")
SB == Let("SB")
SEEN_CASED_BEFORE == Let("SEEN_CASED_BEFORE")
SEG_START == Let("SEG_START")
SINK == Let("SINK")
SLOT == Let("SLOT")
SRC_PAYLOAD == Let("SRC_PAYLOAD")
START == Let("START")
START_I32 == Let("START_I32")
S_LEN == Let("S_LEN")
T == Let("T")
TL == Let("TL")
TMP == Let("TMP")
TMP2 == Let("TMP2")
TURKISH_RESULT == Let("TURKISH_RESULT")
T_LEN == Let("T_LEN")
VAL == Let("VAL")
W == Let("W")
WIDTH == Let("WIDTH")
WS == Let("WS")
YEAR == Let("YEAR")
=============================================================================
