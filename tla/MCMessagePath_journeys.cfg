SPECIFICATION FairSpec
CONSTANTS
  Unit <- MCUnit
  BufSize = 2
  Word = 32
  Messages <- MCMessages
  Lenient = {"deflate"}
  Ways = {"upgrade_reply", "plain_reply", "tunnel_reply", "answer", "plain_request"}
  Chains = {"none", "decode", "repeat"}
INVARIANTS
  TypeOK
  ReadExact
  ReadFailsExplained
  ContentKept
  SilentDamageExplained
  Readable
  DropsExplained
PROPERTIES
  Settles
CHECK_DEADLOCK FALSE
