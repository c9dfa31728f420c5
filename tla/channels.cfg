CONSTANTS
  Des <- MCCipher
  DesInverse <- MCInverse
  Aes <- MCCipher
  AesInverse <- MCInverse
  Sha1 <- MCSha1
  Sha256 <- MCSha256
  Sha512 <- MCSha512
  Rsa <- MCRsa
  GroupOrder = 32749
  Payload <- MCPayloads
  Initial <- MCInitial
  Seal <- MCSeal
  Open <- MCOpen
  After <- MCAfter
  Foreign <- MCForeign
  Lockstep <- MCLockstep
  MaxSent = 3
SPECIFICATION Spec
INVARIANT NextIsAccepted
PROPERTY ImplementsSecureChannel
CHECK_DEADLOCK FALSE
