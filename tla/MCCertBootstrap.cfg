\* Interrupted runs of e2e-up.sh, until four sets of certificates were made.
CONSTANTS
  Torn = Torn
  MaxMinted = 4
SPECIFICATION BoundedSpec
INVARIANT TypeOK LastFileVouches BundleVouchesForPods
PROPERTY RerunKeepsTrust
