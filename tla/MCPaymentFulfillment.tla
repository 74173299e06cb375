----------------------- MODULE MCPaymentFulfillment -----------------------
\* PaymentFulfillment with its constants left to the configurations.
EXTENDS PaymentFulfillment, TLC

\* Workers are interchangeable; sound for the safety properties.
Symmetric == Permutations(Workers)
===========================================================================
