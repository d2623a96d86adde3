\* One message between two key pairs, as in the test.
SPECIFICATION Spec
CONSTANTS
  Keypair = {k1, k2}
  Content = {hello}
  MaxNonce = 1
INVARIANT ReceiverOpens
